---- MODULE Spec2Model ----
(***************************************************************************)
(* Model of the per-tick task assignment and execution core of the        *)
(* Screeps bot: the creep task registry (CREEPS_TARGET), the tower target *)
(* registry (TOWERS_TARGET), Creep::run_creep, Tower::run, the harvest    *)
(* congestion pass of game_loop and the energy transfer helpers.          *)
(*                                                                         *)
(* The host (the game engine) is the environment.  World state read by    *)
(* the bot during a tick is the start-of-tick snapshot: verbs issued by   *)
(* the bot are recorded as intents (acts, tower_act) and are applied by   *)
(* the host between ticks (HostApply).                                     *)
(***************************************************************************)
EXTENDS Integers, FiniteSets, Sequences, TLC

\* ------------------------------------------------------------------ bounds
\* Creeps of the general tick model (names 1..MainCreeps).
MainCreeps == 2
\* Creeps of the congestion model (names 1..CrowdCreeps).
CrowdCreeps == 8
\* Energy capacity of a creep's store.
Cap == 2
\* Energy capacity of an extension and of a spawn.
ExtCap == 1
SpawnCap == 2
\* Max hits of a road, and the hits one repair restores.
HitsMax == 10
RepairPower == 3
\* Energy capacity of a tower (one attack or repair costs one unit).
TowerCap == 4
\* Structures the environment destroys in one run.
MaxDestroyed == 1
\* Largest amount drawn for the transfer helpers.
MaxAmt == 6

\* ------------------------------------------------------- program constants
\* lib.rs:74  `if tuple.0 > 7`
CROWD_LIMIT == 7
\* creep.rs:389  `let max = 10;`
POLICY_MAX == 10
\* creep.rs:391  `if rnd_number < 1`
POLICY_UPGRADE == 1
\* creep.rs:401  `else if rnd_number < 5`
POLICY_DEPOSIT == 5
\* lib.rs:127  `time % 32 == 3`
SWEEP_PERIOD == 32
SWEEP_TICK == 3

\* ------------------------------------------------------------- identities
Names == 1..CrowdCreeps
NoId == "none"
Sources == {"sA", "sB"}
Controllers == {"ctrl"}
Spawns == {"sp", "sp2"}
Extensions == {"e1", "e2"}
Roads == {"road"}
Walls == {"wall"}
Damageables == Roads \cup Walls
TowerIds == {"tw"}
Hostiles == {"h1", "h2"}
StoreIds == Spawns \cup Extensions
\* Construction sites: one of an extension, one of something else.
Sites == {"xsite", "site"}
ExtensionSites == {"xsite"}
\* The second spawn and the construction sites exist only in the rooms that
\* say so.
Unbuilt == {"sp2"} \cup Sites

\* Order in which room.find returns objects (the host's list order).
FindOrder == <<"sp", "sp2", "e1", "e2", "road", "wall", "ctrl", "sA", "sB",
               "site", "xsite">>

Min(a, b) == IF a < b THEN a ELSE b

\* ----------------------------------------------------------- the registry
\* A HashMap is modelled by its set of <<key, value>> entries, so that
\* "one value per key" is a property of insert/remove and not of the type.
NoTask == [type |-> "None", id |-> NoId, snap |-> 0]
Task(t, i) == [type |-> t, id |-> i, snap |-> 0]
\* A task that stores the live object itself: snap is the free energy
\* capacity the object showed in the tick it was fetched.
ObjTask(t, i, f) == [type |-> t, id |-> i, snap |-> f]

Keys(m) == {p[1] : p \in m}
Has(m, k) == k \in Keys(m)
Get(m, k) == IF Has(m, k) THEN (CHOOSE p \in m : p[1] = k)[2] ELSE NoTask
Remove(m, k) == {p \in m : p[1] # k}
MapInsertDup(m, k, v) == m \cup {<<k, v>>}
MapInsert(m, k, v) == {p \in m : p[1] # k} \cup {<<k, v>>}

\* -------------------------------------------------------- transfer helpers
\* i32 -> u32 `try_into()` succeeds iff the value is not negative.
TryIntoU32Ok(x) == x >= 0

\* Creep::get_value_to_transfer / Hauler::get_value_to_transfer and the
\* inlined copies of lib.rs, after the conversion succeeded.
TransferKeepCarried(carried, target_free) == carried
get_value_to_transfer(carried, target_free) ==
    IF target_free < carried THEN target_free ELSE carried

\* Hauler::get_value_to_withdraw, after the conversion succeeded.
get_value_to_withdraw(creep_free, target_used) ==
    IF target_used < creep_free THEN target_used ELSE creep_free

\* Hauler::find_closest_container, the amount part: -1 stands for None.
container_amount(creep_free, target_used) ==
    IF target_used < creep_free THEN -1 ELSE Min(creep_free, target_used)

\* ------------------------------------------------------------------ state
VARIABLES
    \* the host's world, as the snapshot the current tick reads
    alive,          \* game::creeps(): names of the live creeps
    spawning,       \* creeps whose spawning flag is set
    used,           \* used[c]: energy carried by creep c
    near,           \* near[c]: the object creep c is adjacent to, or NoId
    gone,           \* object ids that no longer resolve
    active,         \* find::SOURCES_ACTIVE
    free,           \* free[s]: free energy capacity of spawn/extension s
    hits,           \* hits[r]: hits of road r
    hostiles,       \* hostile creeps in the room
    twEnergy,       \* energy stored in the tower
    memOk,          \* RawMemory deserializes
    scene,          \* which of the modelled rooms this run is about
    \* the bot
    creep_targets,  \* CREEPS_TARGET: set of <<name, task>>
    towers_target,  \* TOWERS_TARGET: set of <<position, target>>
    pc,             \* position of game_loop inside the tick
    queue,          \* creeps game_loop has still to run in this tick
    \* what the bot asked of the host in this tick
    acts,           \* acts[c]: the step of creep c
    tower_act,      \* the step of the tower
    \* one call of a helper: its name, arguments, result
    call,
    \* the clock and the persisted memory
    db              \* time: game::time() modulo the sweep period; creeps:
                    \* the creep records of RawMemory, a set of <<name, data>>;
                    \* loaded: Database.data.creeps of this tick; swept:
                    \* whether the sweep ran in this tick; crowded: the
                    \* sources the congestion pass of this tick acted on

worldVars == <<alive, spawning, used, near, gone, active, free, hits, hostiles,
               twEnergy, memOk, scene>>
botVars == <<creep_targets, towers_target, pc, queue>>
vars == <<alive, spawning, used, near, gone, active, free, hits, hostiles,
          twEnergy, memOk, scene, creep_targets, towers_target, pc, queue,
          acts, tower_act, call, db>>

NoAct == [ran |-> FALSE, had |-> NoTask, flow |-> "none", verb |-> "none",
          tgt |-> NoId, amt |-> 0, rc |-> "none", move |-> NoId, mrc |-> "none"]
NoDb == [time |-> 0, creeps |-> {}, loaded |-> {}, swept |-> FALSE,
         crowded |-> {}]
NoCall == [fn |-> "none", a |-> 0, b |-> 0, ret |-> 0, panic |-> FALSE]
TowerPos == "tw"

\* ------------------------------------------------------- the host's answers
\* ObjectId::resolve(): Some iff the object still exists.
Resolves(i) == i \notin gone

\* First element of the host's find order that satisfies P, or NoId.
RECURSIVE FirstFrom(_, _)
FirstFrom(seq, S) ==
    IF seq = <<>> THEN NoId
    ELSE IF Head(seq) \in S THEN Head(seq) ELSE FirstFrom(Tail(seq), S)
FirstIn(S) == FirstFrom(FindOrder, S)

\* Return codes the host may give a verb of creep c on target t.  seen is
\* the free capacity shown by the object handed to transfer.
UpgradeCodes(c, t) ==
    {"NoBodypart"} \cup (IF near[c] = t THEN {"Ok"} ELSE {"NotInRange"})
RepairCodes(c, t) ==
    {"NoBodypart"} \cup (IF near[c] = t THEN {"Ok"} ELSE {"NotInRange"})
HarvestCodes(c, t) ==
    IF t \in active THEN {"Ok", "NoBodypart"} ELSE {"NotEnough"}
\* A transfer is answered from the store the host looks at.  For a target
\* passed as an object captured in an earlier tick the host may look at the
\* captured store or at the current one: both answers are possible.
TransferCodes(c, t, seen) ==
    IF ~Resolves(t) THEN {"InvalidTarget"}
    ELSE IF seen <= 0 THEN {"Full"} ELSE {"Ok"}
\* build is handed the site object captured when the task was assigned.
BuildCodes(c, t) ==
    IF ~Resolves(t) THEN {"InvalidTarget"}
    ELSE {"NoBodypart"} \cup (IF near[c] = t THEN {"Ok"} ELSE {"NotInRange"})
MoveCodes == {"Ok", "Tired"}

\* room.find(find::SOURCES_ACTIVE) and the draw of pick_random_energy_source:
\* any active source, None (NoId) iff there is none.
SourceDraws == IF active = {} THEN {NoId} ELSE active

\* ------------------------------------------------------------ Creep (bot)
\* Creep::find_unfilled_extension: the first extension of
\* room.find(MY_STRUCTURES) with free capacity > 0.
find_unfilled_extension ==
    FirstIn({e \in Extensions : Resolves(e) /\ free[e] > 0})

\* The result of one step: the registry, the creep's act, and whether the
\* step panicked (unwrap/expect on None or Err).
StepResult(reg, act, panic) == [reg |-> reg, act |-> act, panic |-> panic]
Ran(t) == [NoAct EXCEPT !.ran = TRUE, !.had = t]
\* A step of the policy: flow is the branch the draw selected.
Drew(flow) == [Ran(NoTask) EXCEPT !.flow = flow]
Verb(t, v, tgt, amt, rc) ==
    [Ran(t) EXCEPT !.verb = v, !.tgt = tgt, !.amt = amt, !.rc = rc]
Move(t, tgt, mrc) == [Ran(t) EXCEPT !.move = tgt, !.mrc = mrc]
VerbThenMove(t, v, tgt, rc, mrc) ==
    [Ran(t) EXCEPT !.verb = v, !.tgt = tgt, !.rc = rc, !.move = tgt, !.mrc = mrc]

\* "creep_targets.remove(&name); if let Some(source_id) =
\* self.pick_random_energy_source() { creep_targets.insert(name, Harvest) }"
DropOnly(reg, c, src) == Remove(reg, c)
ToHarvest(reg, c, src) ==
    IF src = NoId THEN Remove(reg, c)
    ELSE MapInsert(Remove(reg, c), c, Task("Harvest", src))

\* creep.rs:122-145  CreepTarget::UpgradeController(controller_id)
ExecUpgradeController(reg, c, t, mv) ==
    IF used[c] > 0
    THEN IF Resolves(t.id)
         THEN { IF rc = "NotInRange"
                THEN StepResult(reg, VerbThenMove(t, "upgrade", t.id, rc, mrc), FALSE)
                ELSE IF rc # "Ok"
                THEN StepResult(Remove(reg, c), Verb(t, "upgrade", t.id, 0, rc), FALSE)
                ELSE StepResult(reg, Verb(t, "upgrade", t.id, 0, rc), FALSE)
                : rc \in UpgradeCodes(c, t.id), mrc \in mv }
         ELSE { StepResult(reg, Ran(t), FALSE) }
    ELSE { StepResult(ToHarvest(reg, c, src), Ran(t), FALSE) : src \in SourceDraws }

\* creep.rs:146-164  CreepTarget::Harvest(source_id)
HarvestNeverDone(reg, c, t, mv) ==
    { StepResult(reg, Move(t, t.id, mrc), FALSE) : mrc \in mv }
ExecHarvest(reg, c, t, mv) ==
    IF Cap - used[c] > 0
    THEN IF Resolves(t.id)
         THEN IF near[c] = t.id
              THEN { StepResult(reg, Verb(t, "harvest", t.id, 0, rc), FALSE)
                     : rc \in HarvestCodes(c, t.id) }
              ELSE { StepResult(reg, Move(t, t.id, mrc), FALSE) : mrc \in mv }
         ELSE { StepResult(reg, Ran(t), FALSE) }
    ELSE { StepResult(Remove(reg, c), Ran(t), FALSE) }

\* creep.rs:165-212  CreepTarget::DepositSpawn(spawn_id)
DepositSpawnNeverDone(reg, c, t, mv) ==
    { StepResult(reg, Verb(t, "transfer", t.id, 0, rc), FALSE)
      : rc \in TransferCodes(c, t.id, free[t.id]) }
ExecDepositSpawn(reg, c, t, mv) ==
    IF used[c] > 0
    THEN IF Resolves(t.id)
         THEN IF near[c] = t.id
              THEN IF ~TryIntoU32Ok(free[t.id])
                   THEN { StepResult(reg, Ran(t), TRUE) }
                   ELSE LET amt == get_value_to_transfer(used[c], free[t.id]) IN
                        { IF rc = "Full"
                          THEN StepResult(Remove(reg, c), Verb(t, "transfer", t.id, amt, rc), FALSE)
                          ELSE IF rc # "Ok"
                          THEN StepResult(Remove(reg, c), Verb(t, "transfer", t.id, amt, rc), FALSE)
                          ELSE StepResult(reg, Verb(t, "transfer", t.id, amt, rc), FALSE)
                          : rc \in TransferCodes(c, t.id, free[t.id]) }
              ELSE { StepResult(reg, Move(t, t.id, mrc), FALSE) : mrc \in mv }
         ELSE { StepResult(reg, Ran(t), FALSE) }
    ELSE { StepResult(Remove(reg, c), Ran(t), FALSE) }

\* creep.rs:213-261  CreepTarget::DepositExtension(ext): ext is the object
\* fetched when the task was assigned; its store shows t.snap.
ExecDepositExtension(reg, c, t, mv) ==
    IF used[c] > 0
    THEN IF near[c] = t.id
         THEN IF ~TryIntoU32Ok(t.snap)
              THEN { StepResult(reg, Ran(t), TRUE) }
              ELSE LET amt == get_value_to_transfer(used[c], t.snap)
                       next == find_unfilled_extension
                       dropped == Remove(reg, c)
                       chained ==
                           IF used[c] > 0 /\ next # NoId
                           THEN MapInsert(dropped, c,
                                    ObjTask("DepositExtension", next, free[next]))
                           ELSE dropped
                   IN { IF rc = "Ok"
                        THEN StepResult(chained, Verb(t, "transfer", t.id, amt, rc), FALSE)
                        ELSE IF rc = "Full"
                        THEN StepResult(dropped, Verb(t, "transfer", t.id, amt, rc), FALSE)
                        ELSE StepResult(reg, Verb(t, "transfer", t.id, amt, rc), FALSE)
                        : rc \in TransferCodes(c, t.id, t.snap)
                                  \cup TransferCodes(c, t.id, free[t.id]) }
         ELSE { StepResult(reg, Move(t, t.id, mrc), FALSE) : mrc \in mv }
    ELSE { StepResult(Remove(reg, c), Ran(t), FALSE) }

\* creep.rs:282-327  CreepTarget::RepairRoad(road_id) / RepairWall(wall_id)
ExecRepair(reg, c, t, mv) ==
    IF used[c] > 0
    THEN IF ~Resolves(t.id)
         THEN { StepResult(reg, Ran(t), TRUE) }
         ELSE LET reg0 == IF hits[t.id] = HitsMax THEN Remove(reg, c) ELSE reg IN
              { IF rc = "NotInRange"
                THEN StepResult(reg0, VerbThenMove(t, "repair", t.id, rc, mrc), FALSE)
                ELSE IF rc # "Ok"
                THEN StepResult(Remove(reg0, c), Verb(t, "repair", t.id, 0, rc), FALSE)
                ELSE StepResult(reg0, Verb(t, "repair", t.id, 0, rc), FALSE)
                : rc \in RepairCodes(c, t.id), mrc \in mv }
    ELSE { StepResult(ToHarvest(reg, c, src), Ran(t), FALSE) : src \in SourceDraws }

\* creep.rs:262-281  CreepTarget::UpgradeConstructionSite(site): site is the
\* object fetched when the task was assigned.
ExecBuild(reg, c, t, mv) ==
    IF used[c] > 0
    THEN { IF rc = "NotInRange"
           THEN StepResult(reg, VerbThenMove(t, "build", t.id, rc, mrc), FALSE)
           ELSE IF rc # "Ok"
           THEN StepResult(Remove(reg, c), Verb(t, "build", t.id, 0, rc), FALSE)
           ELSE StepResult(reg, Verb(t, "build", t.id, 0, rc), FALSE)
           : rc \in BuildCodes(c, t.id), mrc \in mv }
    ELSE { StepResult(ToHarvest(reg, c, src), Ran(t), FALSE) : src \in SourceDraws }

\* CreepTarget::Harvester(Option<source id>, Option<structure object>): the
\* code never sets both, so the task is Task("Harvester", source) for
\* (Some, None), ObjTask("Harvester", structure, free capacity it showed)
\* for (None, Some) and Task("Harvester", NoId) for (None, None).
\* creep.rs:557-570  Harvester::find_deposit: the first spawn unless its
\* free capacity is 0, else the first unfilled extension.
find_deposit ==
    LET sp == FirstIn({x \in Spawns : Resolves(x)})
        ext == find_unfilled_extension
    IN IF sp # NoId /\ free[sp] # 0 THEN sp ELSE ext

\* creep.rs:574-608  Harvester::deposit(target): the act and the boolean it
\* returns.
harvester_deposit(c, t, mv) ==
    IF near[c] = t.id
    THEN IF ~TryIntoU32Ok(t.snap)
         THEN { [act |-> Ran(t), ok |-> FALSE, panic |-> TRUE] }
         ELSE LET amt == get_value_to_transfer(used[c], t.snap) IN
              { [act |-> Verb(t, "transfer", t.id, amt, rc), ok |-> rc = "Ok",
                 panic |-> FALSE]
                : rc \in TransferCodes(c, t.id, t.snap)
                          \cup TransferCodes(c, t.id, free[t.id]) }
    ELSE { [act |-> Move(t, t.id, mrc), ok |-> mrc = "Ok", panic |-> FALSE]
           : mrc \in mv }

\* creep.rs:328-381  CreepTarget::Harvester(source_id, object)
ExecHarvester(reg, c, t, mv) ==
    IF Cap - used[c] > 0
    THEN IF t.id \notin Sources
         THEN { StepResult(
                    IF src # NoId THEN MapInsert(reg, c, Task("Harvester", src))
                    ELSE reg,
                    Ran(t), FALSE)
                : src \in SourceDraws }
         ELSE IF Resolves(t.id)
              THEN IF near[c] = t.id
                   THEN { StepResult(reg, Verb(t, "harvest", t.id, 0, rc), FALSE)
                          : rc \in HarvestCodes(c, t.id) }
                   ELSE { StepResult(reg, Move(t, t.id, mrc), FALSE) : mrc \in mv }
              ELSE { StepResult(reg, Ran(t), FALSE) }
    ELSE IF t.id \notin StoreIds
         THEN { StepResult(
                    IF find_deposit # NoId
                    THEN MapInsert(reg, c,
                             ObjTask("Harvester", find_deposit, free[find_deposit]))
                    ELSE reg,
                    Ran(t), FALSE) }
         ELSE { StepResult(
                    IF d.ok \/ d.panic THEN reg
                    ELSE MapInsert(reg, c, Task("Harvester", NoId)),
                    d.act, d.panic)
                : d \in harvester_deposit(c, t, mv) }

\* creep.rs:119-383  the match on the creep's current target
Exec(reg, c, t, mv) ==
    CASE t.type = "UpgradeController" -> ExecUpgradeController(reg, c, t, mv)
      [] t.type = "Harvest" -> ExecHarvest(reg, c, t, mv)
      [] t.type = "DepositSpawn" -> ExecDepositSpawn(reg, c, t, mv)
      [] t.type = "DepositExtension" -> ExecDepositExtension(reg, c, t, mv)
      [] t.type = "UpgradeConstructionSite" -> ExecBuild(reg, c, t, mv)
      [] t.type \in {"RepairRoad", "RepairWall"} -> ExecRepair(reg, c, t, mv)
      [] t.type = "Harvester" -> ExecHarvester(reg, c, t, mv)
      [] OTHER -> { StepResult(reg, Ran(t), FALSE) }

\* room.find(find::STRUCTURES)
Structures ==
    {i \in Spawns \cup Extensions \cup Damageables \cup Controllers : Resolves(i)}

\* creep.rs:392-400  rnd_number < 1: upgrade the first controller
PolicyUpgrade(reg, c) ==
    LET ctrl == FirstIn({x \in Controllers : Resolves(x)}) IN
    IF ctrl # NoId THEN MapInsert(reg, c, Task("UpgradeController", ctrl)) ELSE reg

\* creep.rs:401-415  rnd_number < 5: deposit to the spawn, else an extension
PolicyDeposit(reg, c) ==
    LET sp == FirstIn({x \in Spawns : Resolves(x)})
        ext == find_unfilled_extension
    IN IF sp # NoId /\ free[sp] # 0
       THEN MapInsert(reg, c, Task("DepositSpawn", sp))
       ELSE IF used[c] > 0 /\ ext # NoId
       THEN MapInsert(reg, c, ObjTask("DepositExtension", ext, free[ext]))
       ELSE reg

\* creep.rs:416-481  otherwise: the closest structure by path, kept only if
\* it is a road with hits > hits_max / 3 (everything after the first
\* `return` pair is unreachable: the filtered Option is None or a road).
PolicyRepair(reg, c, closest) ==
    IF closest \in Roads /\ hits[closest] > HitsMax \div 3
    THEN MapInsert(reg, c, Task("RepairRoad", closest))
    ELSE reg

\* creep.rs:384-490  no target: pick one
Policy(reg, c) ==
    IF used[c] > 0
    THEN { IF rnd < POLICY_UPGRADE
           THEN StepResult(PolicyUpgrade(reg, c), Drew("upgrade"), FALSE)
           ELSE IF rnd < POLICY_DEPOSIT
           THEN StepResult(PolicyDeposit(reg, c), Drew("deposit"), FALSE)
           ELSE StepResult(PolicyRepair(reg, c, closest), Drew("repair"), FALSE)
           : rnd \in 0..(POLICY_MAX - 1), closest \in Structures \cup {NoId} }
    ELSE { StepResult(
               IF src # NoId THEN MapInsert(reg, c, Task("Harvest", src)) ELSE reg,
               Drew("harvest"), FALSE)
           : src \in SourceDraws }

PolicyThenExec(reg, c, mv) ==
    IF Has(reg, c) THEN Exec(reg, c, Get(reg, c), mv)
    ELSE UNION { IF Has(r.reg, c) THEN Exec(r.reg, c, Get(r.reg, c), mv) ELSE {r}
                 : r \in Policy(reg, c) }
\* creep.rs:118-491  the step of a creep that is not spawning.
RunTaskOrPolicy(reg, c, mv) ==
    IF Has(reg, c) THEN Exec(reg, c, Get(reg, c), mv) ELSE Policy(reg, c)
RunCreepUnchecked(reg, c, mv) == RunTaskOrPolicy(reg, c, mv)
\* creep.rs:111-492  `if self.spawning() { return; }`, then the step.
run_creep(reg, c, mv) ==
    IF c \in spawning THEN { StepResult(reg, NoAct, FALSE) }
    ELSE RunTaskOrPolicy(reg, c, mv)

\* ------------------------------------------------- run_creep of lib.rs
\* One unit of energy of the model is EnergyUnit units of the game.
EnergyUnit == 50
\* lib.rs:501  `let max_actions = 3;`
LIB_POLICY_MAX == 3
\* lib.rs:503  `if rnd_number < 1`
LIB_POLICY_UPGRADE == 1
\* lib.rs:513  `else if rnd_number < 2`
LIB_POLICY_DEPOSIT == 2
\* lib.rs:518  `get_free_capacity(..) >= 50`
LIB_EXT_FREE == 50

\* lib.rs:431-470  CreepTarget::DepositExtension(ext): any code other than
\* Ok removes the task; there is no chaining.
LibExecDepositExtension(reg, c, t, mv) ==
    IF used[c] > 0
    THEN IF near[c] = t.id
         THEN IF ~TryIntoU32Ok(t.snap)
              THEN { StepResult(reg, Ran(t), TRUE) }
              ELSE LET amt == get_value_to_transfer(used[c], t.snap) IN
                   { IF rc # "Ok"
                     THEN StepResult(Remove(reg, c),
                                     Verb(t, "transfer", t.id, amt, rc), FALSE)
                     ELSE StepResult(reg, Verb(t, "transfer", t.id, amt, rc), FALSE)
                     : rc \in TransferCodes(c, t.id, t.snap)
                               \cup TransferCodes(c, t.id, free[t.id]) }
         ELSE { StepResult(reg, Move(t, t.id, mrc), FALSE) : mrc \in mv }
    ELSE { StepResult(Remove(reg, c), Ran(t), FALSE) }

\* lib.rs:334-496  the match on the creep's current target.  The arms of
\* UpgradeController (337-360), Harvest (361-379), DepositSpawn (380-430) and
\* UpgradeConstructionSite (471-491, where an Ok build is issued once more)
\* are the statements of creep.rs; Upgrade(_) is removed.
LibExec(reg, c, t, mv) ==
    CASE t.type = "UpgradeController" -> ExecUpgradeController(reg, c, t, mv)
      [] t.type = "Harvest" -> ExecHarvest(reg, c, t, mv)
      [] t.type = "DepositSpawn" -> ExecDepositSpawn(reg, c, t, mv)
      [] t.type = "DepositExtension" -> LibExecDepositExtension(reg, c, t, mv)
      [] t.type = "UpgradeConstructionSite" -> ExecBuild(reg, c, t, mv)
      [] OTHER -> { StepResult(Remove(reg, c), Ran(t), FALSE) }

\* Last element of the host's find order that is in S.
RECURSIVE LastIn(_, _)
LastIn(seq, S) ==
    IF seq = <<>> THEN NoId
    ELSE IF seq[Len(seq)] \in S THEN seq[Len(seq)]
    ELSE LastIn(SubSeq(seq, 1, Len(seq) - 1), S)

\* lib.rs:513-532  rnd_number < 2: the first extension with at least 50 free;
\* else DepositSpawn is inserted for every spawn of the list, whatever its
\* free capacity, each insert replacing the one before.
LibPolicyDeposit(reg, c) ==
    LET ext == FirstIn({e \in Extensions :
                          Resolves(e) /\ free[e] * EnergyUnit >= LIB_EXT_FREE})
        sp == LastIn(FindOrder, {x \in Spawns : Resolves(x)})
    IN IF ext # NoId
       THEN MapInsert(reg, c, ObjTask("DepositExtension", ext, free[ext]))
       ELSE IF sp # NoId THEN MapInsert(reg, c, Task("DepositSpawn", sp))
       ELSE reg

\* lib.rs:533-550  otherwise: the first construction site of an extension,
\* else the closest construction site by path.
LibPolicyBuild(reg, c, closest) ==
    LET x == FirstIn({i \in ExtensionSites : Resolves(i)}) IN
    IF x # NoId THEN MapInsert(reg, c, ObjTask("UpgradeConstructionSite", x, 0))
    ELSE IF closest # NoId
    THEN MapInsert(reg, c, ObjTask("UpgradeConstructionSite", closest, 0))
    ELSE reg

\* lib.rs:497-559  no target: pick one
LibPolicy(reg, c) ==
    IF used[c] > 0
    THEN { IF rnd < LIB_POLICY_UPGRADE
           THEN StepResult(PolicyUpgrade(reg, c), Drew("upgrade"), FALSE)
           ELSE IF rnd < LIB_POLICY_DEPOSIT
           THEN StepResult(LibPolicyDeposit(reg, c), Drew("deposit"), FALSE)
           ELSE StepResult(LibPolicyBuild(reg, c, closest), Drew("build"), FALSE)
           : rnd \in 0..(LIB_POLICY_MAX - 1),
             closest \in {i \in Sites : Resolves(i)} \cup {NoId} }
    ELSE { StepResult(
               IF src # NoId THEN MapInsert(reg, c, Task("Harvest", src)) ELSE reg,
               Drew("harvest"), FALSE)
           : src \in SourceDraws }

\* lib.rs:326-561  run_creep
lib_run_creep(reg, c, mv) ==
    IF c \in spawning THEN { StepResult(reg, NoAct, FALSE) }
    ELSE IF Has(reg, c) THEN LibExec(reg, c, Get(reg, c), mv)
    ELSE LibPolicy(reg, c)

\* ------------------------------------------------------------ Tower (bot)
TowerRepairCodes == IF twEnergy >= 1 THEN {"Ok"} ELSE {"NotEnough"}
\* The Attack target is the hostile object fetched when it was assigned.
TowerAttackCodes(h) ==
    IF h \notin hostiles THEN {"InvalidTarget"}
    ELSE IF twEnergy >= 1 THEN {"Ok"} ELSE {"NotEnough"}

\* tower.rs:73-75  `for h in hostiles.iter() { towers_target.insert(pos,
\* Attack(h)) }`: every hostile of the host's list is inserted under the
\* tower's position, in list order.
HostileOrder == <<"h1", "h2">>
NoAttacks(treg, seq) == treg
RECURSIVE InsertAttacks(_, _)
InsertAttacks(treg, seq) ==
    IF seq = <<>> THEN treg
    ELSE InsertAttacks(
             IF Head(seq) \in hostiles
             THEN MapInsert(treg, TowerPos, ObjTask("Attack", Head(seq), 0))
             ELSE treg,
             Tail(seq))

\* tower.rs:83-110  the structure with hits < hits_max / 3 and fewest hits
RepairCandidates == {r \in Damageables : Resolves(r) /\ hits[r] < HitsMax \div 3}
FirstCandidate == FirstIn(RepairCandidates)
FewestHits ==
    FirstIn({r \in RepairCandidates : \A q \in RepairCandidates : hits[r] <= hits[q]})

\* tower.rs:77-82  free capacity > capacity / 2: the tower saves its energy
TowerSavesWhenHalf == TowerCap - twEnergy >= TowerCap \div 2
TowerSavesEnergy == TowerCap - twEnergy > TowerCap \div 2

\* tower.rs:35-124  Tower::run(towers_target, hostiles)
TowerRetargets(treg) ==
    { StepResult(InsertAttacks(Remove(treg, TowerPos), HostileOrder),
                 Ran(Get(treg, TowerPos)), FALSE) }
tower_run(treg) ==
    LET t == Get(treg, TowerPos) IN
    IF Has(treg, TowerPos)
    THEN IF t.type = "Repair"
         THEN IF Resolves(t.id)
              THEN LET reg0 == IF hits[t.id] = HitsMax
                               THEN Remove(treg, TowerPos) ELSE treg IN
                   { StepResult(IF rc # "Ok" THEN Remove(reg0, TowerPos) ELSE reg0,
                                Verb(t, "repair", t.id, 0, rc), FALSE)
                     : rc \in TowerRepairCodes }
              ELSE { StepResult(Remove(treg, TowerPos), Ran(t), FALSE) }
         ELSE { StepResult(IF rc # "Ok" THEN Remove(treg, TowerPos) ELSE treg,
                           Verb(t, "attack", t.id, 0, rc), FALSE)
                : rc \in TowerAttackCodes(t.id) }
    ELSE IF hostiles # {}
         THEN { StepResult(InsertAttacks(treg, HostileOrder), Ran(NoTask), FALSE) }
         ELSE IF TowerSavesEnergy
         THEN { StepResult(treg, Ran(NoTask), FALSE) }
         ELSE IF FewestHits # NoId
         THEN { StepResult(MapInsert(treg, TowerPos, Task("Repair", FewestHits)),
                           Ran(NoTask), FALSE) }
         ELSE { StepResult(treg, Ran(NoTask), FALSE) }

\* -------------------------------------------------------------- game_loop
\* lib.rs:49-51  the host calls the loop; Database::init().expect(..)
StartTick ==
    /\ pc = "idle"
    /\ IF memOk
       THEN /\ pc' = "creeps" /\ queue' = alive
            /\ db' = [db EXCEPT !.loaded = db.creeps]
       ELSE /\ pc' = "aborted" /\ queue' = {}
            /\ UNCHANGED db
    /\ UNCHANGED <<worldVars, creep_targets, towers_target, acts, tower_act, call>>

\* lib.rs:58-60  run_creep for the next creep of game::creeps().values();
\* mv: the codes the host may answer move_to with.
RunCreep(mv) ==
    /\ pc = "creeps" /\ queue # {}
    /\ LET c == CHOOSE x \in queue : \A y \in queue : x <= y IN
       \E r \in run_creep(creep_targets, c, mv) :
            /\ creep_targets' = r.reg
            /\ acts' = [acts EXCEPT ![c] = r.act]
            /\ IF r.panic
               THEN pc' = "aborted" /\ queue' = {}
               ELSE pc' = pc /\ queue' = queue \ {c}
    /\ UNCHANGED <<worldVars, towers_target, tower_act, call, db>>

\* lib.rs:58-60  the same loop, calling the run_creep of lib.rs.
RunCreepLib(mv) ==
    /\ pc = "creeps" /\ queue # {}
    /\ LET c == CHOOSE x \in queue : \A y \in queue : x <= y IN
       \E r \in lib_run_creep(creep_targets, c, mv) :
            /\ creep_targets' = r.reg
            /\ acts' = [acts EXCEPT ![c] = r.act]
            /\ IF r.panic
               THEN pc' = "aborted" /\ queue' = {}
               ELSE pc' = pc /\ queue' = queue \ {c}
    /\ UNCHANGED <<worldVars, towers_target, tower_act, call, db>>

\* lib.rs:61-68  harvest_sources: per source (count, a creep on it); the
\* count starts at 1 and is then incremented for every entry.
Holders(reg, s) == {p[1] : p \in {q \in reg : q[2] = Task("Harvest", s)}}
HarvestCount(reg, s) ==
    IF Holders(reg, s) = {} THEN 0 ELSE 1 + Cardinality(Holders(reg, s))
Crowded(reg) == {s \in Sources : HarvestCount(reg, s) > CROWD_LIMIT}

\* lib.rs:84-90  for every active source other than the crowded one, the
\* creep's entry is removed and Harvest(*object_id) is inserted.
Correct(reg, name, s) ==
    IF active \ {s} = {} THEN reg
    ELSE MapInsert(Remove(reg, name), name, Task("Harvest", s))

RECURSIVE CorrectAll(_, _, _)
CorrectAll(reg, S, pick) ==
    IF S = {} THEN reg
    ELSE LET s == CHOOSE x \in S : TRUE IN
         CorrectAll(Correct(reg, pick[s], s), S \ {s}, pick)

\* lib.rs:125-131  `if time % 32 == 3 { db.clean_up(); }`
SweepNever(time) == FALSE
SweepDue(time) == time % SWEEP_PERIOD = SWEEP_TICK
\* lib.rs:274-303  Database::clean_up: the records whose name is no living
\* creep's are removed and the rest is written back to RawMemory.
CleanUpKeepsAll(d) == [d EXCEPT !.creeps = d.loaded, !.swept = TRUE]
clean_up(d) ==
    [d EXCEPT !.creeps = {r \in d.loaded : r[1] \in alive}, !.swept = TRUE]

\* lib.rs:61-131  the rest of game_loop: the congestion pass and the memory
\* sweep; pick[s] is the creep recorded for source s (the first the map
\* iteration met).
CongestionPass ==
    /\ pc = "creeps" /\ queue = {}
    /\ \E pick \in [Crowded(creep_targets) -> Names] :
        /\ \A s \in Crowded(creep_targets) : pick[s] \in Holders(creep_targets, s)
        /\ IF \E s \in Crowded(creep_targets) : pick[s] \notin alive
           THEN /\ pc' = "aborted" /\ UNCHANGED creep_targets
                /\ db' = [db EXCEPT !.crowded = Crowded(creep_targets)]
           ELSE /\ pc' = IF Resolves(TowerPos) THEN "towers" ELSE "end"
                /\ creep_targets' =
                       CorrectAll(creep_targets, Crowded(creep_targets), pick)
                /\ db' = LET d == [db EXCEPT !.crowded = Crowded(creep_targets)]
                         IN IF SweepDue(d.time) THEN clean_up(d) ELSE d
    /\ UNCHANGED <<worldVars, towers_target, queue, acts, tower_act, call>>

\* The tower's turn in the tick (Tower::run for the room's tower).
TowerRun ==
    /\ pc = "towers"
    /\ pc' = "end"
    /\ \E r \in tower_run(towers_target) :
           towers_target' = r.reg /\ tower_act' = r.act
    /\ UNCHANGED <<worldVars, creep_targets, queue, acts, call, db>>

\* ------------------------------------------------------------------- host
\* Energy the host moves for creep k's transfer intent when `already` was
\* delivered to the same store earlier in the tick.
DeliveredBy(k, s, already) ==
    IF /\ acts[k].verb = "transfer" /\ acts[k].rc = "Ok" /\ acts[k].tgt = s
       /\ Resolves(s) /\ k \in alive
    THEN Min(Min(acts[k].amt, used[k]),
             IF free[s] - already > 0 THEN free[s] - already ELSE 0)
    ELSE 0
RECURSIVE Given(_, _)
Given(s, k) ==
    IF k = 0 THEN 0
    ELSE Given(s, k - 1) + DeliveredBy(k, s, Given(s, k - 1))
\* A transfer to a creep or to the storage moves what was asked, up to what
\* the creep carries.
Delivered(k) ==
    IF acts[k].tgt \in StoreIds
    THEN DeliveredBy(k, acts[k].tgt, Given(acts[k].tgt, k - 1))
    ELSE IF acts[k].verb = "transfer" /\ acts[k].rc = "Ok" /\ Resolves(acts[k].tgt)
    THEN Min(acts[k].amt, used[k])
    ELSE 0
Worked(k, v) == acts[k].verb = v /\ acts[k].rc = "Ok" /\ k \in alive
RepairsOn(r) ==
    Cardinality({k \in Names : Worked(k, "repair") /\ acts[k].tgt = r})
    + (IF tower_act.verb = "repair" /\ tower_act.rc = "Ok" /\ tower_act.tgt = r
       THEN 1 ELSE 0)

\* A container's tile holds one creep: a move onto it fails when another
\* creep stands on it or a creep earlier in the host's order moves onto it.
Tiles == {"boxA", "boxB"}
TileTaken(k) ==
    /\ acts[k].move \in Tiles
    /\ \E j \in alive \ {k} :
          \/ near[j] = acts[k].move
          \/ j < k /\ acts[j].move = acts[k].move /\ acts[j].mrc = "Ok"

\* The host ends the tick: it applies the intents of the tick and advances
\* the clock by dt.
HostEnds(dt) ==
    /\ pc \in {"end", "aborted"}
    /\ pc' = "idle"
    /\ used' = [k \in Names |->
           IF Worked(k, "harvest") THEN Min(Cap, used[k] + 1)
           ELSE IF Worked(k, "withdraw") \/ Worked(k, "pickup") THEN Cap
           ELSE IF Worked(k, "transfer") THEN used[k] - Delivered(k)
           ELSE IF Worked(k, "upgrade") \/ Worked(k, "repair") \/ Worked(k, "build")
           THEN used[k] - 1
           ELSE used[k]]
    /\ free' = [s \in StoreIds |-> free[s] - Given(s, CrowdCreeps)]
    /\ near' = [k \in Names |->
           IF acts[k].move # NoId /\ acts[k].mrc = "Ok" /\ k \in alive
              /\ ~TileTaken(k)
           THEN acts[k].move ELSE near[k]]
    /\ hits' = [r \in Damageables |->
           IF Resolves(r) THEN Min(HitsMax, hits[r] + RepairPower * RepairsOn(r))
           ELSE hits[r]]
    /\ twEnergy' = IF tower_act.verb \in {"attack", "repair"} /\ tower_act.rc = "Ok"
                   THEN twEnergy - 1 ELSE twEnergy
    /\ acts' = [k \in Names |-> NoAct]
    /\ tower_act' = NoAct
    /\ db' = [db EXCEPT !.time = (db.time + dt) % SWEEP_PERIOD, !.swept = FALSE,
                         !.crowded = {}]
    /\ UNCHANGED <<alive, spawning, gone, active, hostiles, memOk,
                   creep_targets, towers_target, queue, call, scene>>
\* The end of a tick in the models that do not watch the clock, and in the
\* one that does.
HostApply == HostEnds(0)
HostTick == HostEnds(1)

\* Between two ticks the world changes on its own.
EnvDestroy(o) ==
    /\ pc = "idle" /\ o \notin gone
    /\ Cardinality(gone \ (TowerIds \cup Unbuilt)) < MaxDestroyed
    /\ gone' = gone \cup {o}
    /\ UNCHANGED <<alive, spawning, used, near, active, free, hits, hostiles,
                   twEnergy, memOk, botVars, acts, tower_act, call, scene, db>>
EnvKill(c) ==
    /\ pc = "idle" /\ c \in alive
    /\ alive' = alive \ {c}
    /\ spawning' = spawning \ {c}
    /\ used' = [used EXCEPT ![c] = 0]
    /\ near' = [near EXCEPT ![c] = NoId]
    /\ UNCHANGED <<gone, active, free, hits, hostiles, twEnergy, memOk,
                   botVars, acts, tower_act, call, scene, db>>
EnvSpawnStarts(c) ==
    /\ pc = "idle" /\ c \notin alive
    /\ alive' = alive \cup {c}
    /\ spawning' = spawning \cup {c}
    /\ used' = [used EXCEPT ![c] = 0]
    /\ near' = [near EXCEPT ![c] = NoId]
    /\ UNCHANGED <<gone, active, free, hits, hostiles, twEnergy, memOk,
                   botVars, acts, tower_act, call, scene, db>>
EnvSpawned(c) ==
    /\ pc = "idle" /\ c \in spawning
    /\ spawning' = spawning \ {c}
    /\ UNCHANGED <<alive, used, near, gone, active, free, hits, hostiles,
                   twEnergy, memOk, botVars, acts, tower_act, call, scene, db>>
EnvHostileEnters(h) ==
    /\ pc = "idle" /\ h \notin hostiles
    /\ hostiles' = hostiles \cup {h}
    /\ UNCHANGED <<alive, spawning, used, near, gone, active, free, hits,
                   twEnergy, memOk, botVars, acts, tower_act, call, scene, db>>
EnvHostileLeaves(h) ==
    /\ pc = "idle" /\ h \in hostiles
    /\ hostiles' = hostiles \ {h}
    /\ UNCHANGED <<alive, spawning, used, near, gone, active, free, hits,
                   twEnergy, memOk, botVars, acts, tower_act, call, scene, db>>
EnvMemoryUnreadable ==
    /\ pc = "idle" /\ memOk
    /\ memOk' = FALSE
    /\ UNCHANGED <<alive, spawning, used, near, gone, active, free, hits,
                   hostiles, twEnergy, botVars, acts, tower_act, call, scene, db>>
\* A record for name c is written to the persisted memory (the host does
\* when a creep of that name is spawned).
EnvRecordWritten(c, d) ==
    /\ pc = "idle" /\ memOk /\ c \notin Keys(db.creeps)
    /\ db' = [db EXCEPT !.creeps = db.creeps \cup {<<c, d>>}]
    /\ UNCHANGED <<alive, spawning, used, near, gone, active, free, hits, hostiles,
                   twEnergy, memOk, botVars, acts, tower_act, call, scene>>
EnvDamage(r) ==
    /\ pc = "idle" /\ Resolves(r)
    /\ \E h \in 1..(hits[r] - 1) : hits' = [hits EXCEPT ![r] = h]
    /\ UNCHANGED <<alive, spawning, used, near, gone, active, free, hostiles,
                   twEnergy, memOk, botVars, acts, tower_act, call, scene, db>>
EnvTowerRefilled ==
    /\ pc = "idle" /\ Resolves(TowerPos) /\ twEnergy < TowerCap
    /\ twEnergy' = TowerCap
    /\ UNCHANGED <<alive, spawning, used, near, gone, active, free, hits,
                   hostiles, memOk, botVars, acts, tower_act, call, scene, db>>

\* Another creep of the room (a hauler) fills a store, or a spawn spends its
\* energy on a new creep.
EnvStoreFilled(s) ==
    /\ pc = "idle" /\ Resolves(s) /\ free[s] > 0
    /\ free' = [free EXCEPT ![s] = 0]
    /\ UNCHANGED <<alive, spawning, used, near, gone, active, hits, hostiles,
                   twEnergy, memOk, botVars, acts, tower_act, call, scene, db>>
EnvSpawnSpends(s) ==
    /\ pc = "idle" /\ Resolves(s) /\ free[s] < SpawnCap
    /\ free' = [free EXCEPT ![s] = SpawnCap]
    /\ UNCHANGED <<alive, spawning, used, near, gone, active, hits, hostiles,
                   twEnergy, memOk, botVars, acts, tower_act, call, scene, db>>
\* A source runs out of energy, and regenerates.
EnvSourceDepleted(s) ==
    /\ pc = "idle" /\ s \in active
    /\ active' = active \ {s}
    /\ UNCHANGED <<alive, spawning, used, near, gone, free, hits, hostiles,
                   twEnergy, memOk, botVars, acts, tower_act, call, scene, db>>
EnvSourceRegenerated(s) ==
    /\ pc = "idle" /\ s \in Sources \ active
    /\ active' = active \cup {s}
    /\ UNCHANGED <<alive, spawning, used, near, gone, free, hits, hostiles,
                   twEnergy, memOk, botVars, acts, tower_act, call, scene, db>>

\* The part of the program that gives a creep its first task by its role is
\* in no file of src/: between two ticks a creep without task may be given
\* Harvester(None, None) or UpgradeConstructionSite(site) for a site of the
\* room.
DriverTasks ==
    {Task("Harvester", NoId)}
    \cup {ObjTask("UpgradeConstructionSite", i, 0) : i \in {x \in Sites : Resolves(x)}}
DriverAssigns(c) ==
    /\ pc = "idle" /\ c \in alive /\ ~Has(creep_targets, c)
    /\ \E t \in DriverTasks : creep_targets' = MapInsert(creep_targets, c, t)
    /\ UNCHANGED <<worldVars, towers_target, pc, queue, acts, tower_act, call, db>>

\* ------------------------------------------------------------- the models
\* The state before the first tick: the registries are empty
\* (storage.rs:11-16), no creep carries energy, the stores are empty.
Start(sc, creeps, lost, h, e) ==
    /\ scene = sc
    /\ alive = creeps /\ spawning = {}
    /\ used = [c \in Names |-> 0]
    /\ near = [c \in Names |-> NoId]
    /\ gone = lost /\ active = Sources
    /\ free = [s \in StoreIds |-> IF s \in Spawns THEN SpawnCap ELSE ExtCap]
    /\ hits = [r \in Damageables |-> h] /\ hostiles = {}
    /\ twEnergy = e /\ memOk = TRUE
    /\ creep_targets = {} /\ towers_target = {}
    /\ pc = "idle" /\ queue = {}
    /\ acts = [c \in Names |-> NoAct]
    /\ tower_act = NoAct
    /\ db = NoDb
    /\ call = NoCall

\* The general model: two creeps in a room with two sources, a controller,
\* a spawn, two extensions and a road; no tower.
Init == Start("room", 1..MainCreeps, TowerIds \cup Unbuilt, HitsMax, 0)

Next ==
    \/ StartTick
    \/ RunCreep(MoveCodes)
    \/ CongestionPass
    \/ HostApply
    \/ \E o \in Spawns \cup Roads : EnvDestroy(o)
    \/ \E c \in Names : EnvKill(c)
    \/ EnvMemoryUnreadable

Spec == Init /\ [][Next]_vars

\* The tower model: a room with a tower and a road, no creep of ours.
InitTower == Start("tower", {}, Unbuilt, HitsMax, TowerCap)

NextTower ==
    \/ StartTick
    \/ CongestionPass
    \/ TowerRun
    \/ HostApply
    \/ \E h \in Hostiles : EnvHostileEnters(h)
    \/ \E h \in Hostiles : EnvHostileLeaves(h)
    \/ \E r \in Damageables : EnvDamage(r)
    \/ \E r \in Roads : EnvDestroy(r)
    \/ EnvTowerRefilled

SpecTower == InitTower /\ [][NextTower]_vars

\* The crowd model: CrowdCreeps creeps that carry nothing and are too tired
\* to move (every move_to answers Tired), so that they keep their Harvest
\* tasks; creep 1 may die.
InitCrowd == Start("crowd", 1..CrowdCreeps, TowerIds \cup Unbuilt, HitsMax, 0)

NextCrowd ==
    \/ StartTick
    \/ RunCreep({"Tired"})
    \/ CongestionPass
    \/ HostApply
    \/ EnvKill(1)

SpecCrowd == InitCrowd /\ [][NextCrowd]_vars

\* The solo model: one creep in the room of the general model, in a world
\* that leaves it alone.  The host calls the loop on every tick (weak
\* fairness of the tick's steps), and moves and harvests succeed again and
\* again (strong fairness of a creep step the host answers with Ok).
InitSolo == Start("solo", {1}, TowerIds \cup Unbuilt, HitsMax, 0)

NextSolo ==
    \/ StartTick
    \/ RunCreep(MoveCodes)
    \/ CongestionPass
    \/ HostApply

AnsweredOk ==
    \A c \in Names : acts'[c].rc \in {"none", "Ok"} /\ acts'[c].mrc \in {"none", "Ok"}

SpecSolo ==
    /\ InitSolo /\ [][NextSolo]_vars
    /\ WF_vars(NextSolo)
    /\ SF_vars(RunCreep(MoveCodes) /\ AnsweredOk)

\* The spawn model: the room of the general model where creeps die and are
\* spawned again under the same name; a creep being spawned is alive with
\* its spawning flag set until the host finishes it.
InitSpawn == Start("spawn", {1}, TowerIds \cup Unbuilt, HitsMax, 0)

NextSpawn ==
    \/ StartTick
    \/ RunCreep({"Ok"})
    \/ CongestionPass
    \/ HostApply
    \/ \E c \in 1..MainCreeps : EnvKill(c)
    \/ \E c \in 1..MainCreeps : EnvSpawnStarts(c)
    \/ \E c \in 1..MainCreeps : EnvSpawned(c)

SpecSpawn == InitSpawn /\ [][NextSpawn]_vars

\* The memory model: one creep in the room of the general model; the clock
\* runs, records are written to the persisted memory under the creep's name
\* and under a name no living creep has, the creep may die and the road may
\* be destroyed.
MemoryData == {"m1", "m2"}
InitMemory == Start("memory", {1}, TowerIds \cup Unbuilt, HitsMax, 0)

NextMemory ==
    \/ StartTick
    \/ RunCreep({"Ok"})
    \/ CongestionPass
    \/ HostTick
    \/ EnvKill(1)
    \/ \E r \in Roads : EnvDestroy(r)
    \/ \E c \in 1..MainCreeps : \E d \in MemoryData : EnvRecordWritten(c, d)

SpecMemory == InitMemory /\ [][NextMemory]_vars

\* The work model: one creep in a room that also has a second spawn and two
\* construction sites; the creep may be given a task by its role, the
\* spawns are filled and spend their energy, the sources run out and
\* regenerate, an extension may be destroyed.
InitWork == Start("work", {1}, TowerIds, HitsMax, 0)

NextWork ==
    \/ StartTick
    \/ RunCreep(MoveCodes)
    \/ CongestionPass
    \/ HostApply
    \/ DriverAssigns(1)
    \/ \E s \in Spawns : EnvStoreFilled(s)
    \/ \E s \in Spawns : EnvSpawnSpends(s)
    \/ \E s \in Sources : EnvSourceDepleted(s)
    \/ \E s \in Sources : EnvSourceRegenerated(s)
    \/ \E e \in Extensions : EnvDestroy(e)

SpecWork == InitWork /\ [][NextWork]_vars

\* The legacy model: the room of the work model under the game_loop and the
\* run_creep of lib.rs; the extension's construction site may be completed.
InitLegacy == Start("legacy", {1}, TowerIds, HitsMax, 0)

NextLegacy ==
    \/ StartTick
    \/ RunCreepLib(MoveCodes)
    \/ CongestionPass
    \/ HostApply
    \/ \E s \in Spawns : EnvStoreFilled(s)
    \/ \E s \in Spawns : EnvSpawnSpends(s)
    \/ \E i \in ExtensionSites : EnvDestroy(i)

SpecLegacy == InitLegacy /\ [][NextLegacy]_vars

\* The work and the legacy model in one specification.
InitBoth == InitWork \/ InitLegacy

NextBoth ==
    \/ scene = "work" /\ NextWork
    \/ scene = "legacy" /\ NextLegacy

SpecBoth == InitBoth /\ [][NextBoth]_vars

\* The wear model: one creep in the room of the general model, where the
\* road is damaged and the sources run out and regenerate.
InitWear == Start("wear", {1}, TowerIds \cup Unbuilt, HitsMax, 0)

NextWear ==
    \/ StartTick
    \/ RunCreep(MoveCodes)
    \/ CongestionPass
    \/ HostApply
    \/ \E r \in Roads : EnvDamage(r)
    \/ \E s \in Sources : EnvSourceDepleted(s)
    \/ \E s \in Sources : EnvSourceRegenerated(s)

\* The work, the wear and the legacy model in one specification.
InitWorkers == InitWork \/ InitWear \/ InitLegacy

NextWorkers ==
    \/ scene = "work" /\ NextWork
    \/ scene = "wear" /\ NextWear
    \/ scene = "legacy" /\ NextLegacy

SpecWorkers == InitWorkers /\ [][NextWorkers]_vars

\* The general, tower, crowd, solo and spawn models in one specification.
InitAll == Init \/ InitTower \/ InitCrowd \/ InitSolo \/ InitSpawn

NextAll ==
    \/ scene = "room" /\ Next
    \/ scene = "tower" /\ NextTower
    \/ scene = "crowd" /\ NextCrowd
    \/ scene = "solo" /\ NextSolo
    \/ scene = "spawn" /\ NextSpawn

SpecAll == InitAll /\ [][NextAll]_vars

\* A world with no creep, used by the specifications of the pure helpers.
QuietWorld ==
    /\ scene = "helpers"
    /\ alive = {} /\ spawning = {}
    /\ used = [c \in Names |-> 0]
    /\ near = [c \in Names |-> NoId]
    /\ gone = TowerIds \cup Unbuilt /\ active = Sources
    /\ free = [s \in StoreIds |-> 0]
    /\ hits = [r \in Damageables |-> HitsMax] /\ hostiles = {} /\ twEnergy = 0 /\ memOk = TRUE
    /\ creep_targets = {} /\ towers_target = {}
    /\ pc = "idle" /\ queue = {}
    /\ acts = [c \in Names |-> NoAct]
    /\ tower_act = NoAct
    /\ db = NoDb

\* --------------------------------------------- the transfer helpers, called
\* call.a is the unsigned amount the host reports (get_used_capacity: u32),
\* call.b the signed one (get_free_capacity: i32).
InitTransfer ==
    /\ QuietWorld
    /\ call \in [fn : {"none"}, a : 0..MaxAmt, b : (0 - MaxAmt)..MaxAmt,
                  ret : {0}, panic : {FALSE}]

\* Creep::get_value_to_transfer(target_store): carried = call.a,
\* target free capacity = call.b.
CallTransfer ==
    /\ call.fn = "none"
    /\ call' = IF TryIntoU32Ok(call.b)
               THEN [call EXCEPT !.fn = "get_value_to_transfer",
                                 !.ret = get_value_to_transfer(call.a, call.b)]
               ELSE [call EXCEPT !.fn = "get_value_to_transfer", !.panic = TRUE]
    /\ UNCHANGED <<worldVars, botVars, acts, tower_act, db>>

\* Hauler::get_value_to_withdraw(target_store): the creep's own free capacity
\* = call.b, the target's used capacity = call.a.
CallWithdraw ==
    /\ call.fn = "none"
    /\ call' = IF TryIntoU32Ok(call.b)
               THEN [call EXCEPT !.fn = "get_value_to_withdraw",
                                 !.ret = get_value_to_withdraw(call.b, call.a)]
               ELSE [call EXCEPT !.fn = "get_value_to_withdraw", !.panic = TRUE]
    /\ UNCHANGED <<worldVars, botVars, acts, tower_act, db>>

\* Hauler::find_closest_container, once a container was selected: the creep's
\* own free capacity = call.b, the container's used capacity = call.a.
CallContainer ==
    /\ call.fn = "none"
    /\ call' = IF TryIntoU32Ok(call.b)
               THEN [call EXCEPT !.fn = "find_closest_container",
                                 !.ret = container_amount(call.b, call.a)]
               ELSE [call EXCEPT !.fn = "find_closest_container", !.panic = TRUE]
    /\ UNCHANGED <<worldVars, botVars, acts, tower_act, db>>

NextTransfer == CallTransfer \/ CallWithdraw \/ CallContainer
SpecTransfer == InitTransfer /\ [][NextTransfer]_vars

\* C3: for non-negative carried energy and target free capacity,
\* get_value_to_transfer returns exactly the smaller of the two, and the
\* amount exceeds neither.
C3_TransferIsMin ==
    (call.fn = "get_value_to_transfer" /\ call.b >= 0) =>
        /\ ~call.panic
        /\ call.ret <= call.a /\ call.ret <= call.b
        /\ call.ret \in {call.a, call.b}
C3_Witness ==
    /\ call.fn = "get_value_to_transfer"
    /\ call.b >= 0 /\ call.b < call.a /\ call.ret = call.b /\ ~call.panic

\* C4: a negative signed free capacity is clamped to a valid amount by every
\* helper that converts it; no call aborts the tick.
C4_NegativeFreeClamped ==
    (call.fn # "none" /\ call.b < 0) =>
        (~call.panic /\ call.ret >= 0 /\ call.ret <= call.a)

\* ------------------------------------------------------------- the claims
\* The task types that embed an object id.
IdTaskTypes == {"Harvest", "UpgradeController", "DepositSpawn", "RepairRoad",
                "RepairWall"}

\* C1: a step executed on a task whose object id does not resolve removes
\* the entry: the creep (or the tower) holds no task after that step.
C1_UnresolvedTaskDropped ==
    /\ \A c \in Names :
          (acts[c].ran /\ acts[c].had.type \in IdTaskTypes
                      /\ ~Resolves(acts[c].had.id))
          => ~Has(creep_targets, c)
    /\ (tower_act.ran /\ tower_act.had.type = "Repair"
                      /\ ~Resolves(tower_act.had.id))
          => ~Has(towers_target, TowerPos)

\* C2: every creep name has at most one entry in the creep registry and
\* every tower position at most one entry in the tower registry.
C2_AtMostOneTask ==
    /\ \A p \in creep_targets : \A q \in creep_targets : p[1] = q[1] => p = q
    /\ \A p \in towers_target : \A q \in towers_target : p[1] = q[1] => p = q
\* A tower that met two hostiles holds one Attack target, and a creep whose
\* deposit chained holds one DepositExtension.
C2_Witness ==
    \/ /\ scene = "tower" /\ hostiles = Hostiles /\ tower_act.ran
       /\ tower_act.had = NoTask /\ Has(towers_target, TowerPos)
    \/ /\ scene = "room"
       /\ \E c \in alive :
             /\ acts[c].had.type = "DepositExtension" /\ acts[c].rc = "Ok"
             /\ Get(creep_targets, c).type = "DepositExtension"

\* C5: a creep whose DepositExtension(E) transfer returned Ok and left it
\* with energy, while another extension has free capacity, ends the tick
\* with a DepositExtension on an extension other than E that has free
\* capacity.
C5_ChainsToAnotherExtension ==
    \A c \in alive :
        (/\ acts[c].had.type = "DepositExtension"
         /\ acts[c].verb = "transfer" /\ acts[c].rc = "Ok"
         /\ used[c] - acts[c].amt > 0
         /\ \E e \in Extensions \ {acts[c].had.id} : Resolves(e) /\ free[e] > 0)
        => LET t == Get(creep_targets, c) IN
           /\ t.type = "DepositExtension"
           /\ t.id # acts[c].had.id
           /\ free[t.id] > 0

\* C6: when all the live creeps, more than the limit, hold Harvest on one
\* source and another source is active, the congestion pass leaves at most
\* CROWD_LIMIT entries on that source and at least one on the other.
C6_CongestionRelieved ==
    [][\A a \in Sources : \A b \in active \ {a} :
          (/\ pc = "creeps" /\ queue = {} /\ pc' = "end"
           /\ alive = 1..CrowdCreeps
           /\ Holders(creep_targets, a) = alive)
          => /\ Cardinality(Holders(creep_targets', a)) <= CROWD_LIMIT
             /\ Cardinality(Holders(creep_targets', b)) >= 1]_vars

\* C7: a tower that enters a tick with a Repair target while a hostile is
\* in the room ends its step with an Attack target on a hostile.
C7_DefensePreempts ==
    (tower_act.ran /\ tower_act.had.type = "Repair" /\ hostiles # {})
    => /\ Get(towers_target, TowerPos).type = "Attack"
       /\ Get(towers_target, TowerPos).id \in hostiles

\* C8: the harvest lifecycle.  The policy gives an idle creep carrying no
\* energy a Harvest on an active source; a step on a Harvest task moves
\* towards the source while the creep is not adjacent and harvests while it
\* is adjacent and has free capacity; the step removes the task exactly when
\* the free capacity is 0; and a Harvest task is eventually removed when
\* moves and harvests succeed again and again.
C8_PolicyAssignsHarvest ==
    \A c \in alive :
        (acts[c].ran /\ acts[c].had = NoTask /\ used[c] = 0 /\ active # {})
        => /\ Get(creep_targets, c).type = "Harvest"
           /\ Get(creep_targets, c).id \in active
C8_StepMovesOrHarvests ==
    \A c \in alive :
        (acts[c].ran /\ acts[c].had.type = "Harvest" /\ Cap - used[c] > 0)
        => IF near[c] = acts[c].had.id
           THEN acts[c].verb = "harvest" /\ acts[c].tgt = acts[c].had.id
                /\ acts[c].move = NoId
           ELSE acts[c].move = acts[c].had.id /\ acts[c].verb = "none"
C8_RemovedWhenFull ==
    \A c \in alive :
        (acts[c].ran /\ acts[c].had.type = "Harvest")
        => IF Cap - used[c] = 0
           THEN ~Has(creep_targets, c) /\ acts[c].verb = "none"
                /\ acts[c].move = NoId
           ELSE Get(creep_targets, c) = acts[c].had
C8_HarvestLifecycle ==
    /\ [](C8_PolicyAssignsHarvest /\ C8_StepMovesOrHarvests /\ C8_RemovedWhenFull)
    /\ \A c \in 1..MainCreeps :
          (Get(creep_targets, c).type = "Harvest") ~> ~Has(creep_targets, c)
\* A creep that filled up at the source has had its Harvest removed.
C8_Witness ==
    \E c \in alive :
        /\ scene = "solo"
        /\ acts[c].ran /\ acts[c].had.type = "Harvest"
        /\ near[c] = acts[c].had.id /\ used[c] = Cap
        /\ ~Has(creep_targets, c)

\* C9: no tick aborts.
C9_NoTickAborts == pc # "aborted"

\* C10: a step acts on its target as the current tick shows it: the store
\* a DepositExtension step reads is the extension's store of this tick, and
\* the hostile a tower attacks is a hostile of this tick.
C10_TargetsAreFresh ==
    /\ \A c \in Names :
          (acts[c].ran /\ acts[c].had.type = "DepositExtension")
          => acts[c].had.snap = free[acts[c].had.id]
    /\ (tower_act.ran /\ tower_act.had.type = "Attack")
          => tower_act.had.id \in hostiles


\* C11: the step of a creep whose spawning flag is set issues no verb and
\* leaves the whole creep registry unchanged.
C11_SpawningStepIsNoOp ==
    [][(pc = "creeps" /\ queue # {}
        /\ (CHOOSE x \in queue : \A y \in queue : x <= y) \in spawning)
       => (creep_targets' = creep_targets /\ acts' = acts /\ pc' = pc)]_vars
\* A spawning creep that holds an entry has been stepped over while another
\* creep holds an entry too.
C11_Witness ==
    \E c \in spawning : \E d \in alive \ {c} :
        /\ pc = "creeps" /\ c \notin queue /\ d \notin queue
        /\ Has(creep_targets, c) /\ Has(creep_targets, d)
        /\ acts[c] = NoAct

\* C12: an idle creep with free capacity, in a room with an active source
\* (the room has no dropped resource), is assigned Harvest by its step, also
\* when it is partially filled.
C12_IdleWithRoomHarvests ==
    \A c \in alive :
        (acts[c].ran /\ acts[c].had = NoTask /\ Cap - used[c] > 0 /\ active # {})
        => Get(creep_targets, c).type = "Harvest"

\* C13: a policy step leaves the creep idle only if no eligible target
\* exists: an active source for an empty creep; for a loaded creep a spawn
\* or extension with free capacity, a road to repair or the controller.
C13_EligibleTarget(c) ==
    IF used[c] = 0 THEN active # {}
    ELSE \/ \E x \in StoreIds : Resolves(x) /\ free[x] > 0
         \/ \E r \in Roads : Resolves(r) /\ hits[r] < HitsMax
         \/ \E x \in Controllers : Resolves(x)
C13_IdleOnlyWhenExhausted ==
    \A c \in alive :
        (acts[c].ran /\ acts[c].had = NoTask /\ C13_EligibleTarget(c))
        => Has(creep_targets, c)

\* C14: the deposit target follows the precedence extension > spawn: a
\* policy step assigns a deposit to a spawn only if no extension has free
\* capacity.
C14_ExtensionBeforeSpawn ==
    \A c \in alive :
        (acts[c].ran /\ acts[c].had = NoTask
         /\ Get(creep_targets, c).type = "DepositSpawn")
        => ~\E e \in Extensions : Resolves(e) /\ free[e] > 0

\* ------------------------------------------------ the finders, called
\* The finders read the room: free[] is the free capacity of the spawn and
\* the extensions, call.a the range from the creep to each extension, and
\* call.b what find_tower and room.storage() answer.
MaxRange == 2
StorageId == "storage"
\* find_tower(room) is called by the hauler and defined in no file of src/:
\* it answers a tower of the room or None.
FindTowerAnswers == {NoId, TowerPos}

\* hauler.rs:206-237  Hauler::find_unfilled_extension: the extensions with
\* free capacity > 0, reduced to the closest; `next` replaces `closer` only
\* when it is strictly closer.
RECURSIVE ReduceClosest(_, _, _)
ReduceClosest(seq, rng, closer) ==
    IF seq = <<>> THEN closer
    ELSE LET next == Head(seq) IN
         ReduceClosest(Tail(seq), rng,
             IF closer = NoId THEN next
             ELSE IF rng[closer] > rng[next] THEN next ELSE closer)
hauler_find_unfilled_extension(rng) ==
    LET Unfilled(x) == x \in Extensions /\ Resolves(x) /\ free[x] > 0
    IN ReduceClosest(SelectSeq(FindOrder, Unfilled), rng, NoId)

\* hauler.rs:306-351  Hauler::find_closest_depositable: the last spawn with
\* free capacity; else the closest unfilled extension; else find_tower's
\* tower; else the room's storage; else None.
RECURSIVE LastFrom(_, _)
LastFrom(seq, S) ==
    IF seq = <<>> THEN NoId
    ELSE IF seq[Len(seq)] \in S THEN seq[Len(seq)]
    ELSE LastFrom(SubSeq(seq, 1, Len(seq) - 1), S)
DepositableExtensionFirst(rng, tower, storage) ==
    LET ext == hauler_find_unfilled_extension(rng) IN
    IF ext # NoId THEN ext
    ELSE LastFrom(FindOrder, {x \in Spawns : Resolves(x) /\ free[x] > 0})
find_closest_depositable(rng, tower, storage) ==
    LET spawn == LastFrom(FindOrder, {x \in Spawns : Resolves(x) /\ free[x] > 0})
        ext == hauler_find_unfilled_extension(rng)
    IN IF spawn # NoId THEN spawn
       ELSE IF ext # NoId THEN ext
       ELSE IF tower # NoId THEN tower
       ELSE IF storage # NoId THEN storage
       ELSE NoId

InitFind ==
    /\ scene = "finders"
    /\ alive = {} /\ spawning = {}
    /\ used = [c \in Names |-> 0]
    /\ near = [c \in Names |-> NoId]
    /\ gone = Sites /\ active = Sources
    /\ free \in [StoreIds -> 0..ExtCap]
    /\ hits = [r \in Damageables |-> HitsMax] /\ hostiles = {} /\ twEnergy = 0 /\ memOk = TRUE
    /\ creep_targets = {} /\ towers_target = {}
    /\ pc = "idle" /\ queue = {}
    /\ acts = [c \in Names |-> NoAct]
    /\ tower_act = NoAct
    /\ db = NoDb
    /\ call \in [fn : {"none"}, a : [Extensions -> 1..MaxRange],
                  b : [tower : FindTowerAnswers, storage : {NoId, StorageId}],
                  ret : {NoId}, panic : {FALSE}]

CallFindDepositable ==
    /\ call.fn = "none"
    /\ call' = [call EXCEPT !.fn = "find_closest_depositable",
                   !.ret = find_closest_depositable(call.a, call.b.tower, call.b.storage)]
    /\ UNCHANGED <<worldVars, botVars, acts, tower_act, db>>
CallHaulerFindExtension ==
    /\ call.fn = "none"
    /\ call' = [call EXCEPT !.fn = "Hauler::find_unfilled_extension",
                   !.ret = hauler_find_unfilled_extension(call.a)]
    /\ UNCHANGED <<worldVars, botVars, acts, tower_act, db>>
CallCreepFindExtension ==
    /\ call.fn = "none"
    /\ call' = [call EXCEPT !.fn = "Creep::find_unfilled_extension",
                   !.ret = find_unfilled_extension]
    /\ UNCHANGED <<worldVars, botVars, acts, tower_act, db>>

NextFind == CallFindDepositable \/ CallHaulerFindExtension \/ CallCreepFindExtension
SpecFind == InitFind /\ [][NextFind]_vars

\* The unfilled extensions and the closest of them.
Unfilled == {e \in Extensions : Resolves(e) /\ free[e] > 0}
IsClosestUnfilled(e) ==
    e \in Unfilled /\ \A x \in Unfilled : call.a[e] <= call.a[x]

\* C15: find_closest_depositable returns a spawn with free capacity if there
\* is one; otherwise the closest extension with free capacity; otherwise the
\* tower find_tower returns; otherwise the storage; and None only if there
\* is none of these.
C15_DepositablePrecedence ==
    call.fn = "find_closest_depositable" =>
        IF \E x \in Spawns : Resolves(x) /\ free[x] > 0
        THEN call.ret \in Spawns /\ free[call.ret] > 0
        ELSE IF Unfilled # {} THEN IsClosestUnfilled(call.ret)
        ELSE IF call.b.tower # NoId THEN call.ret = call.b.tower
        ELSE IF call.b.storage # NoId THEN call.ret = call.b.storage
        ELSE call.ret = NoId
\* The spawn was returned although an extension had free capacity too.
C15_Witness ==
    /\ call.fn = "find_closest_depositable"
    /\ call.ret \in Spawns /\ Unfilled # {}

\* C20: both versions of find_unfilled_extension return an extension with
\* free capacity whose range to the creep is minimal among the extensions
\* with free capacity, and None iff no extension has free capacity.
C20_ClosestUnfilledExtension ==
    call.fn \in {"Hauler::find_unfilled_extension", "Creep::find_unfilled_extension"}
    => IF Unfilled = {} THEN call.ret = NoId ELSE IsClosestUnfilled(call.ret)

\* A tower step that looks for something to repair: no target held, no
\* hostile in the room, enough energy stored.
TowerSelects ==
    /\ tower_act.ran /\ tower_act.had = NoTask /\ hostiles = {}
    /\ ~(TowerCap - twEnergy > TowerCap \div 2)
SelectedFrom(S) ==
    IF S = {} THEN ~Has(towers_target, TowerPos)
    ELSE LET t == Get(towers_target, TowerPos) IN
         /\ t.type = "Repair" /\ t.id \in S
         /\ \A q \in S : hits[t.id] <= hits[q]

C17_IdleTowerAttacks ==
    (tower_act.ran /\ tower_act.had = NoTask /\ hostiles # {})
    => /\ Get(towers_target, TowerPos).type = "Attack"
       /\ Get(towers_target, TowerPos).id \in hostiles
\* The tower has no energy, a structure needs repair, and it still targets
\* the hostile.
C17_Witness ==
    /\ tower_act.ran /\ tower_act.had = NoTask /\ hostiles # {}
    /\ twEnergy = 0 /\ RepairCandidates # {}
    /\ Get(towers_target, TowerPos).type = "Attack"

C19_SweepEvery32 ==
    pc \in {"end", "aborted"} =>
        /\ db.swept <=> db.time % 32 = 3
        /\ db.swept => db.creeps = {r \in db.loaded : r[1] \in alive}

\* ------------------------------------------------------------- the roles
\* Largest body (number of parts) drawn for find_role.
MaxBody == 15
\* role.rs:169  `if c.body().len() == 15`
ROLE_DRAW_LEN == 15
\* role.rs:170  `rnd_source_idx(5)`
ROLE_DRAW_MAX == 5
\* role.rs:171  `if rnd_number < 1`
ROLE_DRAW_HAULER == 1

\* The parts find_role tells apart: Attack stands for the parts whose
\* counters it never reads (Attack, RangedAttack, Tough, Heal).  A body is
\* the number of its parts of each kind.
Parts == {"Move", "Work", "Carry", "Claim", "Attack"}
BodyLen(b) == b["Move"] + b["Work"] + b["Carry"] + b["Claim"] + b["Attack"]
Bodies == {b \in [Parts -> 0..MaxBody] : BodyLen(b) \in 1..MaxBody}

\* role.rs:121-181  Role::find_role: the roles a call may return for body b
\* (the draw of rnd_source_idx is the host's Math.random()).
find_role(b) ==
    IF b["Move"] = 1 THEN {"Harvester"}
    ELSE IF BodyLen(b) = ROLE_DRAW_LEN
    THEN { IF rnd < ROLE_DRAW_HAULER THEN "Hauler" ELSE "Builder"
           : rnd \in 0..(ROLE_DRAW_MAX - 1) }
    ELSE IF b["Work"] > 1 THEN {"Builder"}
    ELSE {"Hauler"}

\* One creep with body call.a; call.ret lists the roles find_role returned
\* for it, call after call.
InitRole ==
    /\ QuietWorld
    /\ call \in [fn : {"none"}, a : Bodies, b : {0}, ret : {<<>>}, panic : {FALSE}]

\* hauler.rs:274  `Role::find_role(c)`, evaluated again by every find_creep.
CallFindRole ==
    /\ Len(call.ret) < 2
    /\ \E r \in find_role(call.a) :
           call' = [call EXCEPT !.fn = "find_role", !.ret = Append(call.ret, r)]
    /\ UNCHANGED <<worldVars, botVars, acts, tower_act, db>>

NextRole == CallFindRole
SpecRole == InitRole /\ [][NextRole]_vars

\* C21: two evaluations of find_role on the same body yield the same role.
C21_RoleIsDeterministic ==
    (call.fn = "find_role" /\ Len(call.ret) = 2) => call.ret[1] = call.ret[2]

\* C22: a step whose terminal verb returned a code other than Ok, NotInRange
\* or Full has removed the creep's task, whatever the task variant.
C22_FailedVerbRemovesTask ==
    \A c \in alive :
        (acts[c].ran /\ acts[c].verb # "none"
         /\ acts[c].rc \notin {"Ok", "NotInRange", "Full"})
        => ~Has(creep_targets, c)

\* C23: a step of a DepositSpawn, a DepositExtension or a Harvester task
\* with a deposit target whose move command returned Tired leaves the
\* creep's task, target included, as it was.
C23_TiredKeepsTask ==
    \A c \in alive :
        (/\ acts[c].ran /\ acts[c].mrc = "Tired"
         /\ \/ acts[c].had.type \in {"DepositSpawn", "DepositExtension"}
            \/ acts[c].had.type = "Harvester" /\ acts[c].had.id \in StoreIds)
        => Get(creep_targets, c) = acts[c].had

\* C24: a step of an UpgradeController, an UpgradeConstructionSite or a
\* Repair task whose terminal verb returned NotInRange issues a move toward
\* the target and leaves the task in the registry, unchanged.
C24_NotInRangeContinues ==
    \A c \in alive :
        (/\ acts[c].ran /\ acts[c].rc = "NotInRange"
         /\ acts[c].had.type \in {"UpgradeController", "UpgradeConstructionSite",
                                  "RepairRoad", "RepairWall"})
        => /\ acts[c].move = acts[c].had.id
           /\ Get(creep_targets, c) = acts[c].had

\* C25: a step of a deposit task (DepositSpawn, DepositExtension) removes the
\* task, without issuing a transfer, when the creep carries no energy, and
\* removes it when the transfer returns Full; a DepositSpawn step whose
\* transfer returns Ok while the creep carries energy keeps the task.
C25_DepositDone ==
    \A c \in alive :
        (acts[c].ran /\ acts[c].had.type \in {"DepositSpawn", "DepositExtension"})
        => /\ used[c] = 0 => (~Has(creep_targets, c) /\ acts[c].verb = "none")
           /\ (acts[c].verb = "transfer" /\ acts[c].rc = "Full")
                 => ~Has(creep_targets, c)
           /\ (acts[c].had.type = "DepositSpawn" /\ used[c] > 0
               /\ acts[c].verb = "transfer" /\ acts[c].rc = "Ok")
                 => Get(creep_targets, c) = acts[c].had
\* In the legacy room a transfer to a spawn that was filled meanwhile
\* returned Full and the task is gone.
C25_Witness ==
    \E c \in alive :
        /\ scene = "legacy" /\ acts[c].had.type = "DepositSpawn"
        /\ acts[c].verb = "transfer" /\ acts[c].rc = "Full"
        /\ ~Has(creep_targets, c)

\* C26: a step of a Repair task whose target resolves at full health removes
\* the entry and issues neither a repair nor a move toward the target; this
\* holds for a creep's RepairRoad and RepairWall (the creep carrying energy)
\* and for a tower's Repair.
C26_FullHealthIsDone ==
    /\ \A c \in alive :
          (/\ acts[c].ran /\ acts[c].had.type \in {"RepairRoad", "RepairWall"}
           /\ used[c] > 0
           /\ Resolves(acts[c].had.id) /\ hits[acts[c].had.id] = HitsMax)
          => /\ ~Has(creep_targets, c)
             /\ acts[c].verb = "none" /\ acts[c].move = NoId
    /\ (/\ tower_act.ran /\ tower_act.had.type = "Repair"
        /\ Resolves(tower_act.had.id) /\ hits[tower_act.had.id] = HitsMax)
          => /\ ~Has(towers_target, TowerPos)
             /\ tower_act.verb = "none"

\* A tower step that holds Attack(h) issues an attack on h; it keeps that
\* very target when the attack returns Ok and holds no target when the
\* attack returns another code.
C27_StepAttacksHeldTarget ==
    (tower_act.ran /\ tower_act.had.type = "Attack")
    => /\ tower_act.verb = "attack" /\ tower_act.tgt = tower_act.had.id
       /\ tower_act.rc = "Ok" => Get(towers_target, TowerPos) = tower_act.had
       /\ tower_act.rc # "Ok" => ~Has(towers_target, TowerPos)
\* C27: a tower that holds Attack(h) attacks h on every tick and keeps that
\* target for as long as the attack returns Ok; the target changes in no
\* other way (not between ticks, not for another hostile) than by being
\* dropped in the step whose attack returned another code.
C27_AttackUntilFailure ==
    /\ []C27_StepAttacksHeldTarget
    /\ [][(/\ Get(towers_target, TowerPos).type = "Attack"
           /\ towers_target' # towers_target)
          => /\ tower_act'.verb = "attack"
             /\ tower_act'.tgt = Get(towers_target, TowerPos).id
             /\ tower_act'.rc # "Ok"
             /\ ~Has(towers_target', TowerPos)]_vars
\* The tower attacked h2 with success while h1 was in the room too, and
\* still targets h2.
C27_Witness ==
    /\ tower_act.ran /\ tower_act.had.type = "Attack" /\ tower_act.rc = "Ok"
    /\ hostiles = Hostiles
    /\ Get(towers_target, TowerPos) = tower_act.had

\* C28: a policy step that drew the repair flow and found no repair target,
\* in a room with a construction site, ends with a build task on a site.
C28_RepairFallsThroughToBuild ==
    \A c \in alive :
        (/\ acts[c].ran /\ acts[c].had = NoTask /\ acts[c].flow = "repair"
         /\ Get(creep_targets, c).type \notin {"RepairRoad", "RepairWall"}
         /\ \E i \in Sites : Resolves(i))
        => /\ Get(creep_targets, c).type = "UpgradeConstructionSite"
           /\ Get(creep_targets, c).id \in Sites

\* C29: a RepairRoad or RepairWall task assigned by a policy step targets a
\* structure whose hits are, in that tick, strictly below one third of its
\* max hits.
C29_RepairTargetBelowThird ==
    \A c \in alive :
        (/\ acts[c].ran /\ acts[c].had = NoTask
         /\ Get(creep_targets, c).type \in {"RepairRoad", "RepairWall"})
        => 3 * hits[Get(creep_targets, c).id] < HitsMax

\* A spawn of the room has free capacity.
SomeSpawnHasRoom == \E x \in Spawns : Resolves(x) /\ free[x] > 0

\* C30: a step of the deposit flow (the policy's deposit branch, and the
\* Harvester task looking for a deposit) that does not choose an extension
\* chooses a spawn whenever some spawn of the room has free capacity, and it
\* never chooses a spawn whose free capacity is 0.
C30_AnySpawnWithRoom ==
    \A c \in alive :
        LET t == Get(creep_targets, c) IN
        /\ (acts[c].ran /\ acts[c].had = NoTask /\ acts[c].flow = "deposit")
           => /\ (SomeSpawnHasRoom /\ t.type # "DepositExtension")
                    => t.type = "DepositSpawn"
              /\ t.type = "DepositSpawn" => free[t.id] > 0
        /\ (/\ acts[c].ran /\ acts[c].had.type = "Harvester"
            /\ acts[c].had.id \notin StoreIds /\ used[c] = Cap)
           => /\ (SomeSpawnHasRoom /\ t.id \notin Extensions) => t.id \in Spawns
              /\ t.id \in Spawns => free[t.id] > 0

\* C31: the congestion pass of a tick acts on a source iff more than 7
\* registry entries hold Harvest on that source: not with exactly 7, and
\* with 8.
C31_ActsAboveSeven ==
    pc = "end" =>
        \A s \in Sources :
            s \in db.crowded <=> Cardinality(Holders(creep_targets, s)) > 7

\* The tasks that spend carried energy on work.
WorkTaskTypes == {"UpgradeController", "UpgradeConstructionSite", "RepairRoad",
                  "RepairWall"}

\* C32: a step of an UpgradeController, UpgradeConstructionSite, RepairRoad
\* or RepairWall task that starts with no carried energy issues no verb and
\* replaces the task by Harvest on an active source; the creep is left
\* without task only if the room has no active source.
C32_EmptyWorkerHarvests ==
    \A c \in alive :
        (acts[c].ran /\ acts[c].had.type \in WorkTaskTypes /\ used[c] = 0)
        => /\ acts[c].verb = "none"
           /\ IF active # {}
              THEN /\ Get(creep_targets, c).type = "Harvest"
                   /\ Get(creep_targets, c).id \in active
              ELSE ~Has(creep_targets, c)
\* A creep that spent its energy on a construction site was given Harvest
\* in the legacy room.
C32_Witness ==
    \E c \in alive :
        /\ scene = "legacy"
        /\ acts[c].ran /\ acts[c].had.type = "UpgradeConstructionSite"
        /\ used[c] = 0 /\ Get(creep_targets, c).type = "Harvest"

\* ------------------------------------------------------------ Hauler (bot)
\* The hauler's room has, besides the structures above, a storage, a
\* container, a dropped resource and a fellow creep (a builder).
MateId == "mate"
ContainerId == "box"
DropId == "drop"

\* The host's answer to the hauler's transfer to a creep; seen is the free
\* capacity the target shows.
HandOffCodes(c, t, seen) ==
    IF ~Resolves(t) THEN {"InvalidTarget"}
    ELSE IF used[c] = 0 THEN {"NotEnough"}
    ELSE IF seen <= 0 THEN {"Full"} ELSE {"Ok"}

\* hauler.rs:268-300  Hauler::find_creep: the closest creep of the room that
\* find_role calls a Builder and whose store is not full, or None.
FindCreepAnswers == {NoId} \cup (IF Resolves(MateId) THEN {MateId} ELSE {})

HandOffKeptOnFailure(reg, c, mv) ==
    LET t == Get(reg, c) IN
    IF t.type = "TransferToCreep"
    THEN IF near[c] = t.id
         THEN UNION { { StepResult(IF rc = "Ok" THEN Remove(reg, c) ELSE reg,
                                   Verb(t, "transfer", t.id,
                                        get_value_to_transfer(used[c], f), rc),
                                   FALSE)
                        : rc \in HandOffCodes(c, t.id, f) } : f \in 0..Cap }
         ELSE { StepResult(reg, Move(t, t.id, m), FALSE) : m \in mv }
    ELSE { StepResult(Remove(reg, c), Ran(t), FALSE) }

\* hauler.rs:170-202  Hauler::run_targets: next to the creep of
\* TransferToCreep the energy is transferred and the entry removed whatever
\* the answer; elsewhere the hauler moves and the entry stays; with no entry
\* the (absent) entry is removed.
hauler_run_targets(reg, c, mv) ==
    LET t == Get(reg, c) IN
    IF t.type = "TransferToCreep"
    THEN IF near[c] = t.id
         THEN UNION { { StepResult(Remove(reg, c),
                                   Verb(t, "transfer", t.id,
                                        get_value_to_transfer(used[c], f), rc),
                                   FALSE)
                        : rc \in HandOffCodes(c, t.id, f) } : f \in 0..Cap }
         ELSE { StepResult(reg, Move(t, t.id, m), FALSE) : m \in mv }
    ELSE { StepResult(Remove(reg, c), Ran(t), FALSE) }

\* hauler.rs:52-168  Hauler::run, with energy: the deposit of
\* find_closest_depositable; when it is the storage and find_creep finds a
\* builder, TransferToCreep is inserted and nothing else is done; next to the
\* deposit the energy is transferred, elsewhere the hauler moves.
hauler_run_loaded(reg, c, mv, rng, fc) ==
    LET t == Get(reg, c)
        val == find_closest_depositable(rng,
                   IF Resolves(TowerPos) THEN TowerPos ELSE NoId,
                   IF Resolves(StorageId) THEN StorageId ELSE NoId)
        room == IF val \in StoreIds THEN free[val] ELSE Cap
    IN IF val = NoId THEN { StepResult(reg, Ran(t), FALSE) }
       ELSE IF val = StorageId /\ fc # NoId
       THEN { StepResult(MapInsert(reg, c, Task("TransferToCreep", fc)),
                         Ran(t), FALSE) }
       ELSE IF near[c] = val
       THEN { StepResult(reg, Verb(t, "transfer", val,
                                   get_value_to_transfer(used[c], room), rc),
                         FALSE)
              : rc \in TransferCodes(c, val, room) }
       ELSE { StepResult(reg, Move(t, val, m), FALSE) : m \in mv }

\* hauler.rs:90-167  Hauler::run, empty: withdraw from the closest container
\* that can fill the creep, else pick up the closest drop, else withdraw
\* from the storage when it holds enough; box, drop, stored are what the room
\* shows.
hauler_run_empty(reg, c, mv, box, drop, stored) ==
    LET t == Get(reg, c)
        Fetch(v, o) ==
            IF near[c] = o
            THEN { StepResult(reg, Verb(t, v, o, Cap - used[c], rc), FALSE)
                   : rc \in {"Ok", "NotEnough"} }
            ELSE { StepResult(reg, Move(t, o, m), FALSE) : m \in mv }
    IN IF box # NoId THEN Fetch("withdraw", box)
       ELSE IF drop # NoId THEN Fetch("pickup", drop)
       ELSE IF Resolves(StorageId) /\ stored THEN Fetch("withdraw", StorageId)
       ELSE { StepResult(reg, Ran(t), FALSE) }

\* hauler.rs:52-168  Hauler::run; its steps are marked flow = "run".
hauler_run(reg, c, mv) ==
    LET steps ==
            IF used[c] > 0
            THEN UNION { hauler_run_loaded(reg, c, mv, a[1], a[2])
                         : a \in [Extensions -> 1..MaxRange] \X FindCreepAnswers }
            ELSE UNION { hauler_run_empty(reg, c, mv, a[1], a[2], a[3])
                         : a \in {NoId, ContainerId} \X {NoId, DropId} \X BOOLEAN }
    IN { [r EXCEPT !.act.flow = "run"] : r \in steps }

\* The caller of Hauler::run and Hauler::run_targets is in no file of src/:
\* in its turn of the tick a hauler is run by one of the two.
RunHauler(mv) ==
    /\ pc = "creeps" /\ queue # {}
    /\ LET c == CHOOSE x \in queue : \A y \in queue : x <= y IN
       \E r \in hauler_run_targets(creep_targets, c, mv)
                \cup hauler_run(creep_targets, c, mv) :
            /\ creep_targets' = r.reg
            /\ acts' = [acts EXCEPT ![c] = r.act]
            /\ pc' = pc /\ queue' = queue \ {c}
    /\ UNCHANGED <<worldVars, towers_target, tower_act, call, db>>

\* The fellow creep walks away from the hauler.
EnvMateLeaves(c) ==
    /\ pc = "idle" /\ near[c] = MateId
    /\ near' = [near EXCEPT ![c] = NoId]
    /\ UNCHANGED <<alive, spawning, used, gone, active, free, hits, hostiles,
                   twEnergy, memOk, botVars, acts, tower_act, call, scene, db>>

\* The hauler's model: one hauler and its fellow creep.
InitHaul == Start("haul", {1}, TowerIds \cup Unbuilt, HitsMax, 0)

NextHaul ==
    \/ StartTick
    \/ RunHauler(MoveCodes)
    \/ CongestionPass
    \/ HostApply
    \/ \E s \in StoreIds : EnvStoreFilled(s)
    \/ EnvMateLeaves(1)
    \/ EnvDestroy(MateId)

SpecHaul == InitHaul /\ [][NextHaul]_vars

\* C33: a TransferToCreep task stays, with a move towards the creep, in a
\* step of run_targets that starts away from that creep, and is removed in a
\* step that starts next to it, whatever the transfer returns.
C33_HandOff ==
    \A c \in alive :
        (acts[c].ran /\ acts[c].had.type = "TransferToCreep" /\ acts[c].flow = "none")
        => IF near[c] = acts[c].had.id
           THEN /\ acts[c].verb = "transfer" /\ acts[c].tgt = acts[c].had.id
                /\ ~Has(creep_targets, c)
           ELSE /\ acts[c].verb = "none" /\ acts[c].move = acts[c].had.id
                /\ Get(creep_targets, c) = acts[c].had

C33_Witness ==
    /\ pc = "end" /\ acts[1].had.type = "TransferToCreep" /\ acts[1].flow = "none"
    /\ acts[1].verb = "transfer" /\ acts[1].rc = "Full"
    /\ ~Has(creep_targets, 1)

\* C34: at the end of every tick every key of the creep task registry is the
\* name of a live creep.
C34_KeysAreLive ==
    pc = "end" => Keys(creep_targets) \subseteq alive

\* The work, wear, legacy and tower models in one specification.
InitAssign == InitWorkers \/ InitTower

NextAssign ==
    \/ scene \in {"work", "wear", "legacy"} /\ NextWorkers
    \/ scene = "tower" /\ NextTower

SpecAssign == InitAssign /\ [][NextAssign]_vars

\* C35: the step of a creep that has no registry entry issues no verb and no
\* move, leaves the other entries alone and adds at most one entry, under the
\* creep's name; the step of a tower that has no target issues no verb.
C35_StepAssignsOnly ==
    /\ \A c \in Names :
        (acts'[c].ran /\ ~acts[c].ran /\ ~Has(creep_targets, c))
        => /\ acts'[c].verb = "none" /\ acts'[c].move = NoId
           /\ creep_targets \subseteq creep_targets'
           /\ Cardinality(creep_targets' \ creep_targets) <= 1
           /\ Keys(creep_targets' \ creep_targets) \subseteq {c}
    /\ (tower_act'.ran /\ ~tower_act.ran /\ ~Has(towers_target, TowerPos))
        => /\ tower_act'.verb = "none"
           /\ Cardinality(towers_target') <= 1
C35_AssignmentAndExecutionApart == [][C35_StepAssignsOnly]_vars
C35_Witness ==
    /\ scene = "legacy" /\ acts[1].ran /\ acts[1].had = NoTask
    /\ Get(creep_targets, 1).type = "DepositSpawn" /\ Resolves("sp2")

\* --------------------------------------------------------- Harvester (bot)
\* The role-harvesters' room: a container next to each source; a creep
\* stands on a container's tile when near[c] is that container.
SpotRange(s, b) ==
    IF <<s, b>> \in {<<"sA", "boxA">>, <<"sB", "boxB">>} THEN 1 ELSE MaxRange
SourceOrder == <<"sA", "sB">>
ContainerOrder == <<"boxA", "boxB">>

\* harvester.rs:91-113  find_closest_container_from_source: the containers
\* of the host's list reduced to the closest to the source; `next` replaces
\* `closer` only when it is strictly closer.
find_closest_container_from_source(s) ==
    ReduceClosest(SelectSeq(ContainerOrder, Resolves),
                  [b \in Tiles |-> SpotRange(s, b)], NoId)

\* harvester.rs:55-62  the tile is free for creep c: look_for_at(CREEPS)
\* on the tile finds no creep whose position differs from c's.
SpotFree(c, d) == ~\E j \in alive \ {c} : near[j] = d /\ near[j] # near[c]

\* harvester.rs:50-76  Harvester::pick_closest_spot: the first source, in
\* the host's order, whose closest container's tile is free; <<NoId, NoId>>
\* stands for None.
RECURSIVE FirstSpot(_, _)
FirstSpot(c, seq) ==
    IF seq = <<>> THEN <<NoId, NoId>>
    ELSE LET d == find_closest_container_from_source(Head(seq)) IN
         IF d # NoId /\ SpotFree(c, d) THEN <<Head(seq), d>>
         ELSE FirstSpot(c, Tail(seq))
pick_closest_spot(c) == FirstSpot(c, SourceOrder)

\* harvester.rs:78-90  Harvester::run: on the spot's tile harvest the
\* source, elsewhere move to the tile; nothing without a spot.  The
\* registry is not touched.
harvester_run(reg, c, mv) ==
    LET spot == pick_closest_spot(c) IN
    IF spot[2] = NoId THEN { StepResult(reg, Ran(NoTask), FALSE) }
    ELSE IF near[c] = spot[2]
    THEN { StepResult(reg, Verb(NoTask, "harvest", spot[1], 0, rc), FALSE)
           : rc \in HarvestCodes(c, spot[1]) }
    ELSE { StepResult(reg, Move(NoTask, spot[2], m), FALSE) : m \in mv }

\* The caller of Harvester::run is in no file of src/: every role-harvester
\* is run once in the tick.
RunHarvester(mv) ==
    /\ pc = "creeps" /\ queue # {}
    /\ LET c == CHOOSE x \in queue : \A y \in queue : x <= y IN
       \E r \in harvester_run(creep_targets, c, mv) :
            /\ creep_targets' = r.reg
            /\ acts' = [acts EXCEPT ![c] = r.act]
            /\ pc' = pc /\ queue' = queue \ {c}
    /\ UNCHANGED <<worldVars, towers_target, tower_act, call, db>>

\* The role-harvesters' model: two harvesters in a room with two sources and
\* their containers.
InitSpots == Start("spots", 1..MainCreeps, TowerIds \cup Unbuilt, HitsMax, 0)

NextSpots ==
    \/ StartTick
    \/ RunHarvester(MoveCodes)
    \/ CongestionPass
    \/ HostApply
    \/ \E b \in Tiles : EnvDestroy(b)
    \/ \E s \in Sources : EnvSourceDepleted(s)
    \/ \E s \in Sources : EnvSourceRegenerated(s)
    \/ \E c \in 1..MainCreeps : EnvKill(c)
    \/ \E c \in 1..MainCreeps : EnvSpawnStarts(c)

SpecSpots == InitSpots /\ [][NextSpots]_vars

\* The tile a role-harvester selected in its step of this tick.
SelectedSpot(c) ==
    IF acts[c].move \in Tiles THEN acts[c].move
    ELSE IF acts[c].verb = "harvest" THEN near[c] ELSE NoId

\* C36: in a tick two distinct role-harvesters never select the same
\* container tile, so never both move toward the same tile.
C36_SpotsAreExclusive ==
    \A c \in alive : \A j \in alive \ {c} :
        SelectedSpot(c) # NoId => SelectedSpot(c) # SelectedSpot(j)

\* ------------------------------------------------------ Role::get_body
\* Energy amounts are the multiples of EnergyStep up to MaxEnergySteps of
\* them; the number of creeps is at most MaxCrew.
EnergyStep == 25
MaxEnergySteps == 40
MaxCrew == 5
EnergyLevels == {i * EnergyStep : i \in 0..MaxEnergySteps}

\* role.rs:14-24  enum Role
Roles == {"Harvester", "Hauler", "Claimer", "Warrior", "Healer", "Builder",
          "Free", "Tank", "General"}

\* The host's BODYPART_COST.
PartCost(p) == IF p = "Work" THEN 100 ELSE IF p = "Claim" THEN 600
               ELSE IF p = "Attack" THEN 80 ELSE 50
BodyCost(b) ==
    b["Move"] * PartCost("Move") + b["Work"] * PartCost("Work")
    + b["Carry"] * PartCost("Carry") + b["Claim"] * PartCost("Claim")
    + b["Attack"] * PartCost("Attack")

NoBody == [p \in Parts |-> 0]
Body(move, work, carry) ==
    [p \in Parts |-> IF p = "Move" THEN move ELSE IF p = "Work" THEN work
                     ELSE IF p = "Carry" THEN carry ELSE 0]

\* role.rs:305-308  the energy the body is sized for
energy_to_use(energy_available, capacity, num_creeps) ==
    IF capacity > energy_available /\ num_creeps > 3
    THEN capacity ELSE energy_available

\* role.rs:310-339  the body of the role for energy e; the u32 subtraction
\* underflows when e is below the cost of the first three parts, and the
\* build then panics or wraps: the body is not determined.
body_for(role, e) ==
    LET base == IF role = "Harvester" THEN 250
                ELSE IF role = "Hauler" THEN 150 ELSE 200
        missing_parts ==
            IF e < base THEN 0
            ELSE IF role = "Harvester" THEN (e - 250) \div 100
            ELSE IF role = "Hauler" THEN (e - 150) \div 150
            ELSE (e - 200) \div 200
    IN [some |-> TRUE, underflow |-> e < base,
        body |-> IF role = "Harvester" THEN Body(1, 2 + missing_parts, 0)
                 ELSE IF role = "Hauler"
                 THEN Body(2 + 2 * missing_parts, 0, 1 + missing_parts)
                 ELSE Body(1 + missing_parts, 1 + missing_parts,
                           1 + missing_parts)]

GetBodyForCapacity(role, energy_available, capacity, num_creeps) ==
    IF energy_available < 300
    THEN [some |-> FALSE, underflow |-> FALSE, body |-> NoBody]
    ELSE body_for(role, IF capacity > energy_available
                        THEN capacity ELSE energy_available)
\* role.rs:295-340  Role::get_body
get_body(role, energy_available, capacity, num_creeps) ==
    IF energy_available < 300
    THEN [some |-> FALSE, underflow |-> FALSE, body |-> NoBody]
    ELSE body_for(role, energy_to_use(energy_available, capacity, num_creeps))

\* One spawn: call.a is the role and the room's energy, call.ret what
\* get_body answered, call.b the role find_role gives a creep of that body.
InitBody ==
    /\ QuietWorld
    /\ call \in [fn : {"none"},
                 a : [role : Roles, energy_available : EnergyLevels,
                      capacity : EnergyLevels, num_creeps : 0..MaxCrew],
                 b : {"none"},
                 ret : {[some |-> FALSE, underflow |-> FALSE, body |-> NoBody]},
                 panic : {FALSE}]

CallGetBody ==
    /\ call.fn = "none"
    /\ call' = [call EXCEPT !.fn = "get_body",
                   !.ret = get_body(call.a.role, call.a.energy_available,
                                    call.a.capacity, call.a.num_creeps)]
    /\ UNCHANGED <<worldVars, botVars, acts, tower_act, db>>

\* The creep spawned with the body is classified by Role::find_role.
CallFindRoleOfBody ==
    /\ call.fn = "get_body" /\ call.ret.some /\ ~call.ret.underflow
    /\ \E r \in find_role(call.ret.body) :
           call' = [call EXCEPT !.fn = "find_role", !.b = r]
    /\ UNCHANGED <<worldVars, botVars, acts, tower_act, db>>

NextBody == CallGetBody \/ CallFindRoleOfBody
SpecBody == InitBody /\ [][NextBody]_vars

\* C37: for a role among Harvester, Hauler, Builder and a budget for which
\* get_body returns a body, find_role of a creep with that body is the role.
C37_SpawnClassifyRoundTrip ==
    (call.fn = "find_role" /\ call.a.role \in {"Harvester", "Hauler", "Builder"})
        => call.b = call.a.role

\* C40: get_body returns None iff energy_available < 300; a body it returns
\* costs at most the energy it was sized for (capacity when capacity >
\* energy_available and num_creeps > 3, else energy_available), and the
\* subtraction of the base cost does not underflow.
C40_BodyFitsBudget ==
    call.fn \in {"get_body", "find_role"}
    => /\ ~call.ret.some <=> call.a.energy_available < 300
       /\ call.ret.some
          => /\ ~call.ret.underflow
             /\ BodyCost(call.ret.body)
                    <= (IF call.a.capacity > call.a.energy_available
                           /\ call.a.num_creeps > 3
                        THEN call.a.capacity ELSE call.a.energy_available)
C40_Witness ==
    /\ call.fn = "get_body" /\ call.ret.some
    /\ call.a.capacity > call.a.energy_available /\ call.a.num_creeps > 3
    /\ BodyCost(call.ret.body) = call.a.capacity
    /\ BodyLen(call.ret.body) > 3

\* ------------------------------------------- Role::find_role_to_spawn
\* role.rs:184-193  ordered_roles
ordered_roles == <<"Harvester", "Hauler", "Warrior", "Healer", "Builder",
                   "Tank", "General", "Claimer">>
\* role.rs:194-207  role_to_desired_num
role_to_desired_num(r) ==
    IF r = "Harvester" THEN 2 ELSE IF r = "Hauler" THEN 5
    ELSE IF r = "Builder" THEN 1 ELSE 0

\* role.rs:241-290  the loop over ordered_roles; counters[r] is the number
\* of creeps of role r in `roles`; "None" stands for None.
RECURSIVE FirstWantedAnyCrew(_, _, _)
FirstWantedAnyCrew(seq, counters, num_of_creeps) ==
    IF seq = <<>> THEN "None"
    ELSE IF role_to_desired_num(Head(seq)) > counters[Head(seq)]
    THEN Head(seq)
    ELSE FirstWantedAnyCrew(Tail(seq), counters, num_of_creeps)
RECURSIVE FirstWanted(_, _, _)
FirstWanted(seq, counters, num_of_creeps) ==
    IF seq = <<>> THEN "None"
    ELSE IF /\ role_to_desired_num(Head(seq)) > counters[Head(seq)]
            /\ (Head(seq) = "Harvester" => num_of_creeps > 2)
    THEN Head(seq)
    ELSE FirstWanted(Tail(seq), counters, num_of_creeps)

\* role.rs:183-293  Role::find_role_to_spawn
find_role_to_spawn(counters, num_of_creeps) ==
    FirstWanted(ordered_roles, counters, num_of_creeps)

\* The crews: at most MaxCrew creeps of each of Harvester, Hauler, Builder
\* and at most MaxOthers of each other role.
MaxOthers == 1
Crews ==
    {k \in [Roles -> 0..MaxCrew] :
        \A r \in Roles \ {"Harvester", "Hauler", "Builder"} : k[r] <= MaxOthers}

InitQuota ==
    /\ QuietWorld
    /\ call \in [fn : {"none"}, a : Crews, b : 0..MaxCrew, ret : {"none"},
                 panic : {FALSE}]

CallFindRoleToSpawn ==
    /\ call.fn = "none"
    /\ call' = [call EXCEPT !.fn = "find_role_to_spawn",
                   !.ret = find_role_to_spawn(call.a, call.b)]
    /\ UNCHANGED <<worldVars, botVars, acts, tower_act, db>>

NextQuota == CallFindRoleToSpawn
SpecQuota == InitQuota /\ [][NextQuota]_vars

\* C39: find_role_to_spawn returns the first role of the order Harvester,
\* Hauler, Warrior, Healer, Builder, Tank, General, Claimer whose count is
\* below its quota (Harvester 2, Hauler 5, Builder 1, the others 0), with
\* Harvester eligible only when num_of_creeps > 2; None iff haulers >= 5,
\* builders >= 1 and (harvesters >= 2 or num_of_creeps <= 2).
C39_FirstRoleBelowQuota ==
    call.fn = "find_role_to_spawn"
    => /\ call.ret =
            (IF call.a["Harvester"] < 2 /\ call.b > 2 THEN "Harvester"
             ELSE IF call.a["Hauler"] < 5 THEN "Hauler"
             ELSE IF call.a["Builder"] < 1 THEN "Builder"
             ELSE "None")
       /\ call.ret = "None"
          <=> /\ call.a["Hauler"] >= 5 /\ call.a["Builder"] >= 1
              /\ (call.a["Harvester"] >= 2 \/ call.b <= 2)
C39_Witness ==
    /\ call.fn = "find_role_to_spawn" /\ call.ret = "Builder"
    /\ call.a["Harvester"] < 2 /\ call.b <= 2 /\ call.a["Warrior"] = 1

\* The tower model without hostiles: the tower's energy is only spent on
\* repairs.
InitPeace == Start("peace", {}, Unbuilt, HitsMax, TowerCap)

NextPeace ==
    \/ StartTick
    \/ CongestionPass
    \/ TowerRun
    \/ HostApply
    \/ \E r \in Damageables : EnvDamage(r)
    \/ \E r \in Roads : EnvDestroy(r)
    \/ EnvTowerRefilled

SpecPeace == InitPeace /\ [][NextPeace]_vars

\* C38: with no hostile ever present, a repair never takes the tower's
\* stored energy below half its capacity.
C38_RepairSpendsAboveHalf ==
    twEnergy' < twEnergy => 2 * twEnergy' >= TowerCap
C38_RepairKeepsReserve == [][C38_RepairSpendsAboveHalf]_vars

====
